---- MODULE Spec2Model ----
(***************************************************************************)
(* Error-budgeted decimal compaction of ephemeris series                   *)
(* (avahak/ephemeris): src/tools/round_compact.py, src/mpp02_truncate.py,  *)
(* src/vsop87a_truncate.py.                                                *)
(*                                                                         *)
(* Numbers.  A Python float is modelled by the decimal number it denotes:  *)
(* a record [sign, digits, exp] with value sign * digits * 10^exp, kept in *)
(* canonical form (no leading or trailing zero digit; zero is              *)
(* [sign |-> 0, digits |-> <<>>, exp |-> 0]).  float(s) is the exact value *)
(* of the literal s, Decimal(x).as_tuple() the digit expansion of x, and   *)
(* float arithmetic is exact decimal arithmetic.  Binary rounding error of *)
(* IEEE doubles is outside the model.                                      *)
(*                                                                         *)
(* Strings are sequences of one-character strings, integers that can grow  *)
(* to 17 digits (the mantissa) are digit sequences.                        *)
(***************************************************************************)
EXTENDS Integers, Sequences, FiniteSets, TLC

VARIABLES
    \* one call of round_standard_form_components or round_compact
    rc_pc, rc_x, rc_sig_figs, rc_out,
    \* one call of round_compact_in_interval: its arguments, loop variable and
    \* local best_found
    iv_pc, iv_x, iv_a, iv_b, iv_sig_figs, iv_best_found,
    \* the caller of round_compact_in_interval: the interval and the result of
    \* its last call
    iv_prev,
    \* one call of simplest_float_in (src/tools.py): its arguments and the
    \* number it returns
    sf_pc, sf_x, sf_a, sf_b, sf_out,
    \* a call of simplify (src/mpp02_truncate.py or src/vsop87a_truncate.py): its
    \* arguments, its locals max_error_per_char, ntma (tma for a planet),
    \* error_multipliers, k, sig_figs, x_current and coeffs_truncated, and the
    \* list it returns
    sp_pc, sp_args, sp_max_error_per_char, sp_ntma, sp_error_multipliers, sp_k,
    sp_sig_figs, sp_x_current, sp_coeffs_truncated, sp_out,
    \* a record of the digit search for the current coefficient: the sig_figs of
    \* the proposals that would have saved characters and were not taken
    sp_rejected,
    \* the caller of simplify: the arguments and the result of its last call
    sp_prev,
    \* a call of truncate_series (src/mpp02_truncate.py or
    \* src/vsop87a_truncate.py): its arguments, the positions of its two loops,
    \* its locals coeffs_truncated and groups_truncated, the object it returns,
    \* and the lists that simplify returned to it, in the order of the calls
    ts_pc, ts_obj_raw, ts_size, ts_g, ts_t, ts_coeffs_truncated, ts_groups_truncated,
    ts_out, ts_simplified,
    \* json.dumps with FormattedFloatEncoder, apply_formatting and json.loads
    \* (write_data): the data, the text that json.dumps returns, the text that
    \* apply_formatting returns, and what json.loads reads from it
    en_pc, en_data, en_json, en_out, en_back,
    \* one FixedLengthReader: its construction from a format string and one
    \* call of read; fr_origin remembers the part each entry was made from
    fr_pc, fr_format_string, fr_parts, fr_part_index, fr_current_index,
    fr_format_list, fr_origin, fr_line, fr_result

rc_vars == <<rc_pc, rc_x, rc_sig_figs, rc_out>>

iv_vars == <<iv_pc, iv_x, iv_a, iv_b, iv_sig_figs, iv_best_found, iv_prev>>

sf_vars == <<sf_pc, sf_x, sf_a, sf_b, sf_out>>

sp_locals == <<sp_max_error_per_char, sp_ntma, sp_error_multipliers, sp_k, sp_sig_figs,
               sp_x_current, sp_coeffs_truncated, sp_rejected>>

sp_vars == <<sp_pc, sp_args, sp_locals, sp_out, sp_prev>>

ts_vars == <<ts_pc, ts_obj_raw, ts_size, ts_g, ts_t, ts_coeffs_truncated,
             ts_groups_truncated, ts_out, ts_simplified>>

en_vars == <<en_pc, en_data, en_json, en_out, en_back>>

fr_vars == <<fr_pc, fr_format_string, fr_parts, fr_part_index, fr_current_index,
             fr_format_list, fr_origin, fr_line, fr_result>>

vars == <<rc_vars, iv_vars, sf_vars, sp_vars, ts_vars, en_vars, fr_vars>>

(***************************************************************************)
(* Bounds of the model and constants of the program                        *)
(***************************************************************************)
\* the numbers given to the rounding functions: significands of at most
\* WideDigits digits with exponents in -MaxExp..MaxExp, and significands of at
\* most MaxDigits digits with exponents in -NarrowExp..NarrowExp
WideDigits == 2
MaxExp == 10
MaxDigits == 3
NarrowExp == 1
\* round_compact_in_interval is given x with at most IvDigits digits and
\* exponent in -1..IvExp, and bounds a, b of one digit with exponent in
\* -1..IvExp+1
IvDigits == 2
IvExp == 1
\* simplify is called with alpha in 0..MaxAlpha
MaxAlpha == 1
\* terms of a group of a series
MaxTerms == 2
\* range(17, -1, -1) and min(sig_figs, 17): the most digits ever kept
MaxSigFigs == 17
\* _test_round_compact: sig_num in range(1, 20), and the digits of the round
\* trip float(round_compact(t, 17))
TestSigNums == 19
RoundTripSigFigs == 17
\* the doubles tested are at most DoubleSteps doubles above 1, 1000, 0.1 and 1e18
DoubleSteps == 7

(***************************************************************************)
(* Characters, digit sequences, small integers                             *)
(***************************************************************************)
Digits == 0..9

DigitChars == <<"0", "1", "2", "3", "4", "5", "6", "7", "8", "9">>

DigitChar(d) == DigitChars[d + 1]

IsDigitChar(c) == \E d \in Digits : DigitChars[d + 1] = c

CharDigit(c) == CHOOSE d \in Digits : DigitChars[d + 1] = c

\* k times the element c
RECURSIVE Repeat(_, _)
Repeat(c, k) == IF k <= 0 THEN <<>> ELSE Append(Repeat(c, k - 1), c)

Zeros(k) == Repeat(0, k)

ZeroChars(k) == Repeat("0", k)

RECURSIVE DigitsToChars(_)
DigitsToChars(ds) ==
    IF Len(ds) = 0 THEN <<>>
    ELSE Append(DigitsToChars(SubSeq(ds, 1, Len(ds) - 1)), DigitChar(ds[Len(ds)]))

RECURSIVE CharsToDigits(_)
CharsToDigits(cs) ==
    IF Len(cs) = 0 THEN <<>>
    ELSE Append(CharsToDigits(SubSeq(cs, 1, Len(cs) - 1)), CharDigit(cs[Len(cs)]))

Max(a, b) == IF a >= b THEN a ELSE b

Abs(i) == IF i < 0 THEN -i ELSE i

RECURSIVE Pow10(_)
Pow10(k) == IF k <= 0 THEN 1 ELSE 10 * Pow10(k - 1)

\* index of the first / last non-zero digit, 0 when there is none
FirstNonZero(ds) ==
    IF \E i \in 1..Len(ds) : ds[i] # 0
    THEN CHOOSE i \in 1..Len(ds) : ds[i] # 0 /\ \A j \in 1..(i - 1) : ds[j] = 0
    ELSE 0

LastNonZero(ds) ==
    IF \E i \in 1..Len(ds) : ds[i] # 0
    THEN CHOOSE i \in 1..Len(ds) : ds[i] # 0 /\ \A j \in (i + 1)..Len(ds) : ds[j] = 0
    ELSE 0

\* str(i) of a non-negative int
RECURSIVE NatToChars(_)
NatToChars(i) ==
    IF i < 10 THEN <<DigitChar(i)>>
    ELSE NatToChars(i \div 10) \o <<DigitChar(i % 10)>>

\* str(i) of an int
IntToChars(i) == IF i < 0 THEN <<"-">> \o NatToChars(-i) ELSE NatToChars(i)

\* int(s) of a short digit string
RECURSIVE DigitsToNat(_)
DigitsToNat(ds) ==
    IF Len(ds) = 0 THEN 0
    ELSE 10 * DigitsToNat(SubSeq(ds, 1, Len(ds) - 1)) + ds[Len(ds)]

\* int(s) of a literal with an optional sign, as the exponent part of a float literal
CharsToInt(cs) ==
    IF Len(cs) > 0 /\ cs[1] = "-" THEN -DigitsToNat(CharsToDigits(Tail(cs)))
    ELSE IF Len(cs) > 0 /\ cs[1] = "+" THEN DigitsToNat(CharsToDigits(Tail(cs)))
    ELSE DigitsToNat(CharsToDigits(cs))

(***************************************************************************)
(* Integers as digit sequences: the mantissa of                            *)
(* round_standard_form_components is a Python int of up to 18 digits       *)
(***************************************************************************)
\* the int whose decimal digits are ds: leading zeros do not count, 0 is <<0>>
IntOfDigits(ds) ==
    IF FirstNonZero(ds) = 0 THEN <<0>> ELSE SubSeq(ds, FirstNonZero(ds), Len(ds))

\* mantissa += 1
RECURSIVE Incr(_)
Incr(ds) ==
    IF Len(ds) = 0 THEN <<1>>
    ELSE IF ds[Len(ds)] < 9
         THEN Append(SubSeq(ds, 1, Len(ds) - 1), ds[Len(ds)] + 1)
         ELSE Incr(SubSeq(ds, 1, Len(ds) - 1)) \o <<0>>

(***************************************************************************)
(* Decimal values                                                          *)
(***************************************************************************)
ZeroVal == [sign |-> 0, digits |-> <<>>, exp |-> 0]

\* float('nan'), as json.load reads NaN: it has no digits and is neither zero,
\* positive nor negative
NaNVal == [sign |-> 2, digits |-> <<>>, exp |-> 0]

\* the value sign * ds * 10^e in canonical form
Canon(sign, ds, e) ==
    IF FirstNonZero(ds) = 0 \/ sign = 0 THEN ZeroVal
    ELSE [sign |-> sign,
          digits |-> SubSeq(ds, FirstNonZero(ds), LastNonZero(ds)),
          exp |-> e + (Len(ds) - LastNonZero(ds))]

\* position of the decimal point: |v| = 0.d1d2... * 10^DecPt(v)
DecPt(v) == v.exp + Len(v.digits)

\* digit i of ds, zero past its end
DigitAt(ds, i) == IF i <= Len(ds) THEN ds[i] ELSE 0

\* |u| < |v| for non-zero canonical u, v
MagLess(u, v) ==
    IF DecPt(u) # DecPt(v) THEN DecPt(u) < DecPt(v)
    ELSE \E i \in 1..Max(Len(u.digits), Len(v.digits)) :
            /\ DigitAt(u.digits, i) < DigitAt(v.digits, i)
            /\ \A j \in 1..(i - 1) : DigitAt(u.digits, j) = DigitAt(v.digits, j)

\* u < v
ValLess(u, v) ==
    IF u.sign # v.sign THEN u.sign < v.sign
    ELSE IF u.sign = 0 THEN FALSE
    ELSE IF u.sign = 1 THEN MagLess(u, v)
    ELSE MagLess(v, u)

\* u <= v
ValLeq(u, v) == ~ValLess(v, u)

\* index of the first occurrence of character c in s, 0 when there is none
IndexOf(s, c) ==
    IF \E i \in 1..Len(s) : s[i] = c
    THEN CHOOSE i \in 1..Len(s) : s[i] = c /\ \A j \in 1..(i - 1) : s[j] # c
    ELSE 0

\* float(s): the value of a decimal literal [-]ddd[.ddd][e[+-]dd]
ParseFloat(s) ==
    LET neg  == Len(s) > 0 /\ s[1] = "-"
        body == IF neg THEN Tail(s) ELSE s
        epos == IndexOf(body, "e")
        mant == IF epos = 0 THEN body ELSE SubSeq(body, 1, epos - 1)
        expo == IF epos = 0 THEN 0 ELSE CharsToInt(SubSeq(body, epos + 1, Len(body)))
        dot  == IndexOf(mant, ".")
        ip   == IF dot = 0 THEN mant ELSE SubSeq(mant, 1, dot - 1)
        fp   == IF dot = 0 THEN <<>> ELSE SubSeq(mant, dot + 1, Len(mant))
    IN Canon(IF neg THEN -1 ELSE 1, CharsToDigits(ip \o fp), expo - Len(fp))

\* str(x) of a float: repr gives the shortest digits that read back as x, in
\* fixed notation for 1e-4 <= |x| < 1e16 and in exponent notation otherwise
ReprMinDecPt == -3
ReprMaxDecPt == 16

StrFloat(x) ==
    IF x = NaNVal THEN <<"n", "a", "n">>
    ELSE IF x.sign = 0 THEN <<"0", ".", "0">>
    ELSE LET ds == DigitsToChars(x.digits)
             n  == Len(ds)
             dp == DecPt(x)
             sg == IF x.sign = -1 THEN <<"-">> ELSE <<>>
             e  == dp - 1
             ee == NatToChars(Abs(e))
         IN IF dp < ReprMinDecPt \/ dp > ReprMaxDecPt
            THEN sg \o <<ds[1]>>
                  \o (IF n > 1 THEN <<".">> \o SubSeq(ds, 2, n) ELSE <<>>)
                  \o <<"e", IF e < 0 THEN "-" ELSE "+">>
                  \o (IF Len(ee) < 2 THEN <<"0">> \o ee ELSE ee)
            ELSE IF dp <= 0 THEN sg \o <<"0", ".">> \o ZeroChars(-dp) \o ds
            ELSE IF dp >= n THEN sg \o ds \o ZeroChars(dp - n) \o <<".", "0">>
            ELSE sg \o SubSeq(ds, 1, dp) \o <<".">> \o SubSeq(ds, dp + 1, n)

\* Decimal(x).as_tuple(): the digits of x and the exponent of the last one; the
\* expansion of a float never has a positive exponent
DecimalTuple(x) ==
    IF x.exp > 0 THEN [digits |-> x.digits \o Zeros(x.exp), exponent |-> 0]
    ELSE [digits |-> x.digits, exponent |-> x.exp]

(***************************************************************************)
(* Float arithmetic, as exact arithmetic on the decimal numbers            *)
(***************************************************************************)
\* k zeros, for the k <= 64 that the arithmetic of the model needs
ZeroDigits(k) ==
    SubSeq(<<0, 0, 0, 0, 0, 0, 0, 0, 0, 0, 0, 0, 0, 0, 0, 0,
             0, 0, 0, 0, 0, 0, 0, 0, 0, 0, 0, 0, 0, 0, 0, 0,
             0, 0, 0, 0, 0, 0, 0, 0, 0, 0, 0, 0, 0, 0, 0, 0,
             0, 0, 0, 0, 0, 0, 0, 0, 0, 0, 0, 0, 0, 0, 0, 0>>, 1, k)

\* the digit string ds with zeros in front up to length n
PadFront(ds, n) == ZeroDigits(n - Len(ds)) \o ds

\* the digit strings are added and multiplied four digits at a time: the number
\* of the last four digits of U, and the four digits of a number below 10^4
PadBlocks(ds) == PadFront(ds, 4 * ((Len(ds) + 3) \div 4))

LastBlock(U) ==
    1000 * U[Len(U) - 3] + 100 * U[Len(U) - 2] + 10 * U[Len(U) - 1] + U[Len(U)]

FrontBlocks(U) == SubSeq(U, 1, Len(U) - 4)

BlockDigits(t) == <<(t \div 1000) % 10, (t \div 100) % 10, (t \div 10) % 10, t % 10>>

\* U + V + carry for digit strings of one length, a multiple of four; the sum
\* has that length and the carry out of the first digit is lost (the first
\* digits are zero)
RECURSIVE AddDigits(_, _, _)
AddDigits(U, V, carry) ==
    IF U = <<>> THEN <<>>
    ELSE IF LastBlock(U) + LastBlock(V) + carry >= 10000
    THEN AddDigits(FrontBlocks(U), FrontBlocks(V), 1)
            \o BlockDigits(LastBlock(U) + LastBlock(V) + carry - 10000)
    ELSE AddDigits(FrontBlocks(U), FrontBlocks(V), 0)
            \o BlockDigits(LastBlock(U) + LastBlock(V) + carry)

\* U - V - borrow for digit strings of one length, a multiple of four, U >= V
RECURSIVE SubDigits(_, _, _)
SubDigits(U, V, borrow) ==
    IF U = <<>> THEN <<>>
    ELSE IF LastBlock(U) - LastBlock(V) - borrow < 0
    THEN SubDigits(FrontBlocks(U), FrontBlocks(V), 1)
            \o BlockDigits(LastBlock(U) - LastBlock(V) - borrow + 10000)
    ELSE SubDigits(FrontBlocks(U), FrontBlocks(V), 0)
            \o BlockDigits(LastBlock(U) - LastBlock(V) - borrow)

\* U * d + carry for a number d below 10^4; the first four digits of U are zero
RECURSIVE MulDigit(_, _, _)
MulDigit(U, d, carry) ==
    IF U = <<>> THEN <<>>
    ELSE IF LastBlock(U) * d + carry >= 10000
    THEN MulDigit(FrontBlocks(U), d, (LastBlock(U) * d + carry) \div 10000)
            \o BlockDigits((LastBlock(U) * d + carry) % 10000)
    ELSE MulDigit(FrontBlocks(U), d, 0) \o BlockDigits(LastBlock(U) * d + carry)

\* U * V for digit strings of lengths that are multiples of four, in
\* Len(U) + Len(V) digits
RECURSIVE MulDigits(_, _)
MulDigits(U, V) ==
    IF V = <<>> THEN ZeroDigits(Len(U))
    ELSE AddDigits(MulDigits(U, FrontBlocks(V)) \o ZeroDigits(4),
                   PadFront(MulDigit(ZeroDigits(4) \o U, LastBlock(V), 0), Len(U) + Len(V)),
                   0)

\* -v and abs(v)
NegVal(v) == [v EXCEPT !.sign = -v.sign]

AbsVal(v) == [v EXCEPT !.sign = IF v.sign = 0 THEN 0 ELSE 1]

\* the digits of |v| in units of 10^e, e <= v.exp, in n digits
AlignDigits(v, e, n) == PadFront(v.digits \o ZeroDigits(v.exp - e), n)

\* a number of digits that holds the sum of u and v in units of 10^e
AlignLen(u, v, e) ==
    4 * (1 + Max(Len(u.digits) + u.exp - e, Len(v.digits) + v.exp - e) \div 4)

\* u + v
AddVal(u, v) ==
    IF u.sign = 0 THEN v
    ELSE IF v.sign = 0 THEN u
    ELSE LET e == IF u.exp < v.exp THEN u.exp ELSE v.exp
             n == AlignLen(u, v, e)
         IN IF u.sign = v.sign
            THEN Canon(u.sign, AddDigits(AlignDigits(u, e, n), AlignDigits(v, e, n), 0), e)
            ELSE IF MagLess(u, v)
            THEN Canon(v.sign, SubDigits(AlignDigits(v, e, n), AlignDigits(u, e, n), 0), e)
            ELSE Canon(u.sign, SubDigits(AlignDigits(u, e, n), AlignDigits(v, e, n), 0), e)

\* u - v
SubVal(u, v) == AddVal(u, NegVal(v))

\* u * v, block by block of the factor with the fewer digits
MulVal(u, v) ==
    Canon(u.sign * v.sign,
          IF Len(u.digits) < Len(v.digits)
          THEN MulDigits(PadBlocks(v.digits), PadBlocks(u.digits))
          ELSE MulDigits(PadBlocks(u.digits), PadBlocks(v.digits)),
          u.exp + v.exp)

\* np.power(u, k) for an integer k >= 0
RECURSIVE PowVal(_, _)
PowVal(u, k) == IF k = 0 THEN Canon(1, <<1>>, 0) ELSE MulVal(PowVal(u, k - 1), u)

\* the float of the integer k >= 0
NatVal(k) == Canon(1, CharsToDigits(NatToChars(k)), 0)

(***************************************************************************)
(* src/tools/round_compact.py                                              *)
(***************************************************************************)
\* FormattedFloat.ZERO = FormattedFloat('0')
ZERO == <<"0">>

\* whether the remainder r of the division by u is rounded up: 2 * r > u, or
\* 2 * r = u and the quotient is odd (round-half-even)
PyHalfCompare(rr, u, odd) == ValLess(u, rr) \/ (rr = u /\ odd)

PyRoundsUp(r, u, odd) == PyHalfCompare(AddVal(r, r), u, odd)

\* the quotient q, or q + 1 when the remainder is rounded up
PySignificand(q, up) == IF up THEN AddVal(q, Canon(1, <<1>>, 0)) ELSE q

\* the text of the n-digit significand m of x and of the exponent
PyFormatParts(x, n, m) ==
    LET L  == Len(x.digits)
        carry == n < L /\ DecPt(m) > n
        md == IF n >= L THEN DigitsToChars(x.digits) \o ZeroChars(n - L)
              ELSE IF carry THEN <<"1">> \o ZeroChars(n - 1)
              ELSE DigitsToChars(m.digits) \o ZeroChars(m.exp)
        e  == IF carry THEN DecPt(x) ELSE DecPt(x) - 1
        ee == NatToChars(Abs(e))
    IN (IF x.sign = -1 THEN <<"-">> ELSE <<>>)
       \o <<md[1]>> \o (IF n > 1 THEN <<".">> \o SubSeq(md, 2, n) ELSE <<>>)
       \o <<"e", IF e < 0 THEN "-" ELSE "+">>
       \o (IF Len(ee) < 2 THEN <<"0">> \o ee ELSE ee)

\* f'{x:.{n-1}e}' for x # 0, n >= 1: Python's own correctly rounded formatting,
\* computed on the integer significand D of x by division by u = 10^(L-n)
PyFormatE(x, n) ==
    PyFormatParts(x, n,
        PySignificand(Canon(1, SubSeq(x.digits, 1, n), 0),
                      /\ n < Len(x.digits)
                      /\ PyRoundsUp(Canon(1, SubSeq(x.digits, n + 1, Len(x.digits)), 0),
                                    Canon(1, <<1>>, Len(x.digits) - n),
                                    x.digits[n] % 2 = 1)))

\* variants of the rounding rules: never round up; round half up
RoundsUpNever(digits, sig_figs) == FALSE

RoundsUpHalfUp(digits, sig_figs) == digits[sig_figs + 1] >= 5

\* the rounding rules of round_standard_form_components: whether the mantissa
\* made of digits[0..sig_figs-1] is incremented
RoundsUp(digits, sig_figs) ==
    LET is_halfway == \A i \in (sig_figs + 2)..Len(digits) : digits[i] = 0
    IN \/ digits[sig_figs + 1] > 5
       \/ /\ digits[sig_figs + 1] = 5
          /\ \/ ~is_halfway
             \/ digits[sig_figs] % 2 = 1

\* return 0, 0, 0
ZeroComponents == [sign |-> 0, mantissa |-> <<0>>, exponent |-> 0, assert_ok |-> TRUE]

\* digits and exponent of the tuple t after "pad with zeros if we don't start
\* with enough digits"
PaddedTuple(t, sig_figs) ==
    IF Len(t.digits) < sig_figs + 1
    THEN [digits   |-> t.digits \o Zeros(sig_figs + 1 - Len(t.digits)),
          exponent |-> t.exponent - (sig_figs + 1 - Len(t.digits))]
    ELSE t

\* the mantissa made of digits[0..sig_figs-1], after the rounding rules
RoundedMantissa(digits, sig_figs) ==
    IF RoundsUp(digits, sig_figs)
    THEN Incr(IntOfDigits(SubSeq(digits, 1, sig_figs)))
    ELSE IntOfDigits(SubSeq(digits, 1, sig_figs))

\* variant: the mantissa is cut back to sig_figs digits and the exponent is
\* left as it was
NormalizedComponentsSameExponent(sign, mantissa, exponent, sig_figs) ==
    [sign      |-> sign,
     mantissa  |-> IntOfDigits(SubSeq(mantissa, 1, sig_figs)),
     exponent  |-> exponent,
     assert_ok |-> Len(mantissa) >= sig_figs]

\* mantissa = str(mantissa), the normalisation back to [1, 10), the assertion
\* and the return
NormalizedComponents(sign, mantissa, exponent, sig_figs) ==
    IF Len(mantissa) > sig_figs
    THEN [sign      |-> sign,
          mantissa  |-> IntOfDigits(SubSeq(mantissa, 1, sig_figs)),
          exponent  |-> exponent + 1,
          assert_ok |-> TRUE]
    ELSE [sign      |-> sign,
          mantissa  |-> IntOfDigits(mantissa),
          exponent  |-> exponent,
          assert_ok |-> Len(mantissa) = sig_figs]

\* exponent = exponent + len(digits) - 1 and the rest of the function, for the
\* padded tuple p
RoundedComponents(sign, p, sig_figs) ==
    NormalizedComponents(sign, RoundedMantissa(p.digits, sig_figs),
                         p.exponent + Len(p.digits) - 1, sig_figs)

\* round_standard_form_components(x, sig_figs), sig_figs >= 1: (sign, mantissa,
\* exponent); assert_ok is the assertion len(mantissa) == sig_figs
RoundStandardFormComponents(x, sig_figs) ==
    IF x.sign = 0 THEN ZeroComponents
    ELSE RoundedComponents(x.sign, PaddedTuple(DecimalTuple(x), sig_figs), sig_figs)

\* variant: the point is written when the mantissa ends at decimal_place too
ComposeNumberPointAlways(sign, mantissa_digits, decimal_place, exponent) ==
    LET sign_part == IF sign = -1 THEN <<"-">> ELSE <<>>
        n         == Len(mantissa_digits)
        decimal_part ==
            IF n >= decimal_place
            THEN SubSeq(mantissa_digits, 1, decimal_place) \o <<".">>
                 \o SubSeq(mantissa_digits, decimal_place + 1, n)
            ELSE mantissa_digits
        exponent_part == IF exponent # 0 THEN <<"e">> \o IntToChars(exponent) ELSE <<>>
    IN sign_part \o decimal_part \o exponent_part

\* _compose_number(sign, mantissa_digits, decimal_place, exponent)
ComposeNumber(sign, mantissa_digits, decimal_place, exponent) ==
    LET sign_part == IF sign = -1 THEN <<"-">> ELSE <<>>
        n         == Len(mantissa_digits)
        decimal_part ==
            IF n > decimal_place
            THEN SubSeq(mantissa_digits, 1, decimal_place) \o <<".">>
                 \o SubSeq(mantissa_digits, decimal_place + 1, n)
            ELSE mantissa_digits
        exponent_part == IF exponent # 0 THEN <<"e">> \o IntToChars(exponent) ELSE <<>>
    IN sign_part \o decimal_part \o exponent_part

\* variant: the first attempt on a tie
PickCompactFirst(x_rounded_1, x_rounded_2) ==
    IF Len(x_rounded_1) <= Len(x_rounded_2) THEN x_rounded_1 ELSE x_rounded_2

\* the more compact of the two attempts, the second on a tie
PickCompact(x_rounded_1, x_rounded_2) ==
    IF Len(x_rounded_1) < Len(x_rounded_2) THEN x_rounded_1 ELSE x_rounded_2

\* round_compact, "remove exponent and just move the decimal point"
MovePoint(exponent, sig_figs) == exponent > 0 /\ exponent < sig_figs

\* round_compact, "remove exponent and pad with zeros from right", and the
\* number of zeros appended
PadRight(exponent, sig_figs, exponent_length) ==
    exponent >= sig_figs /\ exponent <= sig_figs + exponent_length + 6

\* variant: one zero short
PadRightCountShort(exponent, sig_figs) == exponent - sig_figs

PadRightCount(exponent, sig_figs) == exponent - sig_figs + 1

\* round_compact, "add leading zeroes to get rid of the exponent"
PadLeft(exponent, exponent_length) ==
    exponent >= -6 - exponent_length /\ exponent < 0

\* variant: zero in exponent notation
ZeroLiteralExponent(sig_figs) == <<"0", "e", "0">>

\* FormattedFloat('0' if sig_figs == 1 else '0.' + '0'*(sig_figs-1)), with
\* sig_figs already min(sig_figs, 17)
ZeroLiteral(sig_figs) ==
    IF sig_figs = 1 THEN <<"0">> ELSE <<"0", ".">> \o ZeroChars(sig_figs - 1)

\* mantissa, decimal_place and exponent after "remove exponent and just move the
\* decimal point"
AfterMovePoint(st, sig_figs) ==
    IF MovePoint(st.exponent, sig_figs)
    THEN [st EXCEPT !.decimal_place = st.decimal_place + st.exponent, !.exponent = 0]
    ELSE st

\* ... after "remove exponent and pad with zeros from right"
AfterPadRight(st, sig_figs, exponent_length) ==
    IF PadRight(st.exponent, sig_figs, exponent_length)
    THEN [mantissa      |-> st.mantissa \o ZeroChars(PadRightCount(st.exponent, sig_figs)),
          decimal_place |-> st.decimal_place + st.exponent,
          exponent      |-> 0]
    ELSE st

\* ... after "add leading zeroes to get rid of the exponent"
AfterPadLeft(st, exponent_length) ==
    IF PadLeft(st.exponent, exponent_length)
    THEN [st EXCEPT !.mantissa = ZeroChars(-st.exponent) \o st.mantissa, !.exponent = 0]
    ELSE st

\* x_rounded_2
SecondAttempt(sign, st) == ComposeNumber(sign, st.mantissa, st.decimal_place, st.exponent)

\* the pick of the more compact form, the two asserts and the return
RoundCompactReturn(x, sig_figs, c, x_rounded_1, x_rounded_2) ==
    [status |-> IF /\ c.assert_ok
                   /\ ParseFloat(x_rounded_1) = ParseFloat(x_rounded_2)
                   /\ ParseFloat(PyFormatE(x, sig_figs))
                         = ParseFloat(PickCompact(x_rounded_1, x_rounded_2))
                THEN "ok" ELSE "AssertionError",
     str |-> PickCompact(x_rounded_1, x_rounded_2),
     x_rounded_1 |-> x_rounded_1, x_rounded_2 |-> x_rounded_2,
     sig_figs |-> sig_figs, comps |-> c]

\* the two attempts, from mantissa, decimal_place and exponent in st
RoundCompactAttempts(x, sig_figs, c, st, exponent_length) ==
    RoundCompactReturn(x, sig_figs, c,
        ComposeNumber(c.sign, st.mantissa, st.decimal_place, st.exponent),
        SecondAttempt(c.sign,
            AfterPadLeft(AfterPadRight(AfterMovePoint(st, sig_figs), sig_figs,
                                       exponent_length),
                         exponent_length)))

\* round_compact from the components c on: mantissa = str(mantissa),
\* exponent_length = len(str(exponent)), decimal_place = 1
RoundCompactOf(x, sig_figs, c) ==
    RoundCompactAttempts(x, sig_figs, c,
        [mantissa |-> DigitsToChars(c.mantissa), decimal_place |-> 1,
         exponent |-> c.exponent],
        Len(IntToChars(c.exponent)))

\* what round_compact gives before it has components: no strings
NoStrings(sig_figs) ==
    [status |-> "ok", str |-> <<>>, x_rounded_1 |-> <<>>, x_rounded_2 |-> <<>>,
     sig_figs |-> sig_figs, comps |-> ZeroComponents]

\* sig_figs = min(sig_figs, 17) and the rest of round_compact
RoundCompactClamped(x, sig_figs) ==
    IF x.sign = 0 THEN [NoStrings(sig_figs) EXCEPT !.str = ZeroLiteral(sig_figs)]
    ELSE IF x = NaNVal THEN [NoStrings(sig_figs) EXCEPT !.status = "TypeError"]
    ELSE RoundCompactOf(x, sig_figs, RoundStandardFormComponents(x, sig_figs))

\* variant: sig_figs is not limited to 17
RoundCompactUnclamped(x, sig_figs0) ==
    IF sig_figs0 < 0 THEN [NoStrings(sig_figs0) EXCEPT !.status = "ValueError"]
    ELSE IF sig_figs0 = 0 THEN [NoStrings(sig_figs0) EXCEPT !.str = ZERO]
    ELSE RoundCompactClamped(x, sig_figs0)

\* round_compact(x, sig_figs).  status is "ok" or the exception raised
\* ("ValueError", "TypeError", "AssertionError"); str is the text of the
\* FormattedFloat returned
RoundCompact(x, sig_figs0) ==
    IF sig_figs0 < 0 THEN [NoStrings(sig_figs0) EXCEPT !.status = "ValueError"]
    ELSE IF sig_figs0 = 0 THEN [NoStrings(sig_figs0) EXCEPT !.str = ZERO]
    ELSE RoundCompactClamped(x, IF sig_figs0 < MaxSigFigs THEN sig_figs0 ELSE MaxSigFigs)

(***************************************************************************)
(* One call of round_standard_form_components or of round_compact          *)
(***************************************************************************)
\* the digits the inputs are written with: 5 and both sides of this rounding
\* threshold, both parities, and 9 for the carry
DigitChoices == {0, 4, 5, 6, 9}

\* the digit strings of length k
RECURSIVE DigitStrings(_)
DigitStrings(k) ==
    IF k = 0 THEN {<<>>}
    ELSE {Append(ds, d) : ds \in DigitStrings(k - 1), d \in DigitChoices}

\* the non-empty digit strings without a leading or a trailing zero
Significands(maxlen) ==
    {ds \in UNION {DigitStrings(k) : k \in 1..maxlen} : ds[1] # 0 /\ ds[Len(ds)] # 0}

\* the non-zero numbers with at most maxlen digits and exponent in -maxexp..maxexp
Numbers(maxlen, maxexp) ==
    {[sign |-> s, digits |-> ds, exp |-> e] :
        s \in {-1, 1}, ds \in Significands(maxlen), e \in (-maxexp)..maxexp}

\* 2.5 and 3.5
TwoAndHalf == [sign |-> 1, digits |-> <<2, 5>>, exp |-> -1]
ThreeAndHalf == [sign |-> 1, digits |-> <<3, 5>>, exp |-> -1]

\* the numbers given to the rounding functions
RoundInputs ==
    {ZeroVal, TwoAndHalf, ThreeAndHalf}
    \cup Numbers(WideDigits, MaxExp) \cup Numbers(MaxDigits, NarrowExp)

NoOutput == [fn |-> "none"]

\* the other functions are not running
RoundIdle ==
    /\ rc_pc = "idle"
    /\ rc_x = ZeroVal
    /\ rc_sig_figs = 0
    /\ rc_out = NoOutput

IntervalIdle ==
    /\ iv_pc = "idle"
    /\ iv_x = ZeroVal
    /\ iv_a = ZeroVal
    /\ iv_b = ZeroVal
    /\ iv_sig_figs = 0
    /\ iv_best_found = <<>>
    /\ iv_prev = NoOutput

SimplestIdle ==
    /\ sf_pc = "idle"
    /\ sf_x = ZeroVal
    /\ sf_a = ZeroVal
    /\ sf_b = ZeroVal
    /\ sf_out = NoOutput

\* the locals of simplify before its first statement
SimplifyFresh ==
    /\ sp_max_error_per_char = ZeroVal
    /\ sp_ntma = ZeroVal
    /\ sp_error_multipliers = <<>>
    /\ sp_k = 0
    /\ sp_sig_figs = 0
    /\ sp_x_current = <<>>
    /\ sp_coeffs_truncated = <<>>
    /\ sp_rejected = {}
    /\ sp_out = <<>>

SimplifyIdle ==
    /\ sp_pc = "idle"
    /\ sp_args = NoOutput
    /\ SimplifyFresh
    /\ sp_prev = NoOutput

SeriesIdle ==
    /\ ts_pc = "idle"
    /\ ts_obj_raw = NoOutput
    /\ ts_size = ""
    /\ ts_g = 0
    /\ ts_t = 0
    /\ ts_coeffs_truncated = <<>>
    /\ ts_groups_truncated = <<>>
    /\ ts_out = NoOutput
    /\ ts_simplified = <<>>

EncoderIdle ==
    /\ en_pc = "idle"
    /\ en_data = <<>>
    /\ en_json = <<>>
    /\ en_out = <<>>
    /\ en_back = NoOutput

ReaderIdle ==
    /\ fr_pc = "idle"
    /\ fr_format_string = <<>>
    /\ fr_parts = <<>>
    /\ fr_part_index = 0
    /\ fr_current_index = 0
    /\ fr_format_list = <<>>
    /\ fr_origin = <<>>
    /\ fr_line = <<>>
    /\ fr_result = <<>>

InitRound ==
    /\ ReaderIdle
    /\ EncoderIdle
    /\ IntervalIdle
    /\ SimplestIdle
    /\ SimplifyIdle
    /\ SeriesIdle
    /\ rc_pc = "call"
    /\ rc_x \in RoundInputs
    /\ rc_sig_figs \in (-1)..(MaxSigFigs + 1)
    /\ rc_out = NoOutput

CallRoundStandardFormComponents ==
    /\ rc_pc = "call"
    /\ rc_sig_figs >= 1
    /\ rc_sig_figs <= MaxSigFigs
    /\ rc_out' = [fn |-> "round_standard_form_components",
                  ret |-> RoundStandardFormComponents(rc_x, rc_sig_figs)]
    /\ rc_pc' = "done"
    /\ UNCHANGED <<rc_x, rc_sig_figs, iv_vars, sf_vars, sp_vars, ts_vars, en_vars, fr_vars>>

CallRoundCompact ==
    /\ rc_pc = "call"
    /\ rc_out' = [fn |-> "round_compact", ret |-> RoundCompact(rc_x, rc_sig_figs)]
    /\ rc_pc' = "done"
    /\ UNCHANGED <<rc_x, rc_sig_figs, iv_vars, sf_vars, sp_vars, ts_vars, en_vars, fr_vars>>

NextRound == CallRoundStandardFormComponents \/ CallRoundCompact

SpecRound == InitRound /\ [][NextRound]_vars

(***************************************************************************)
(* Properties of round_standard_form_components and round_compact          *)
(***************************************************************************)
RsfcDone == rc_pc = "done" /\ rc_out.fn = "round_standard_form_components"

CompactDone == rc_pc = "done" /\ rc_out.fn = "round_compact"

\* the number sign * mantissa * 10^(exponent - n + 1) the components stand for
ComponentsValue(c, n) == Canon(c.sign, c.mantissa, c.exponent - n + 1)

\* number of decimal digits of the positive int c
RECURSIVE NumDigits(_)
NumDigits(c) == IF c < 10 THEN 1 ELSE 1 + NumDigits(c \div 10)

\* the positive int c is a decimal of at most n significant digits
AtMostSigDigits(c, n) == c % Pow10(NumDigits(c) - n) = 0

HasExponentMarker(s) == \E i \in 1..Len(s) : s[i] = "e"

\* C2: for every non-zero x and n in 1..17 the components returned by
\* round_standard_form_components(x, n) reconstruct to the correctly rounded
\* n-digit decimal of x: they equal the round-half-even rounding computed
\* independently by integer division, they equal x when x has at most n digits,
\* and otherwise they are a decimal of at most n significant digits and no such
\* decimal is closer to x (distances in units of the last digit of x).
C2_CorrectlyRounded ==
    (RsfcDone /\ rc_x.sign # 0) =>
        LET x == rc_x
            n == rc_sig_figs
            c == rc_out.ret
            L == Len(x.digits)
            D == DigitsToNat(x.digits)
            k == c.exponent - n + 1 - x.exp
            R == DigitsToNat(c.mantissa) * Pow10(k)
        IN /\ c.sign = x.sign
           /\ ComponentsValue(c, n) = ParseFloat(PyFormatE(x, n))
           /\ IF n >= L THEN ComponentsValue(c, n) = x
              ELSE /\ k >= 0
                   /\ AtMostSigDigits(R, n)
                   /\ \A cand \in Max(1, D - Abs(D - R) + 1)..(D + Abs(D - R) - 1) :
                         ~AtMostSigDigits(cand, n)

\* a rounding that drops digits and carries into a new leading digit
C2_Witness ==
    /\ RsfcDone
    /\ rc_x.sign # 0
    /\ rc_sig_figs < Len(rc_x.digits)
    /\ rc_out.ret.exponent = DecPt(rc_x)

\* C3: round_standard_form_components rounds half to even.  With d the digits
\* of x: if digit n+1 is 5 and all later digits are zero the mantissa is
\* incremented only when digit n is odd; if digit n+1 is 5 with a later
\* non-zero digit, or is above 5, it is always incremented; below 5 never.
\* 2.5 rounds to 2 and 3.5 rounds to 4 at one significant digit.
C3_HalfToEven ==
    (RsfcDone /\ rc_x.sign # 0) =>
        LET x == rc_x
            n == rc_sig_figs
            c == rc_out.ret
            L == Len(x.digits)
            kept == SubSeq(x.digits \o Zeros(n), 1, n)
            next == DigitAt(x.digits, n + 1)
            later == \E i \in (n + 2)..L : x.digits[i] # 0
            incremented ==
                \/ next > 5
                \/ next = 5 /\ later
                \/ next = 5 /\ ~later /\ kept[n] % 2 = 1
        IN /\ ComponentsValue(c, n) =
                 Canon(x.sign, IF incremented THEN Incr(kept) ELSE kept, DecPt(x) - n)
           /\ (x = TwoAndHalf /\ n = 1) => (c.mantissa = <<2>> /\ c.exponent = 0)
           /\ (x = ThreeAndHalf /\ n = 1) => (c.mantissa = <<4>> /\ c.exponent = 0)

\* a true tie below an even digit, which is not incremented
C3_Witness ==
    /\ RsfcDone
    /\ rc_x.sign # 0
    /\ Len(rc_x.digits) = rc_sig_figs + 1
    /\ rc_x.digits[rc_sig_figs + 1] = 5
    /\ rc_x.digits[rc_sig_figs] % 2 = 0
    /\ DigitsToChars(rc_out.ret.mantissa) = DigitsToChars(SubSeq(rc_x.digits, 1, rc_sig_figs))

\* C4: for every non-zero x and n in 1..17 the two candidate strings of
\* round_compact denote the same decimal value, that value is
\* sign * mantissa * 10^(exponent - n + 1) of the n-digit rounding of x, and
\* neither assertion at the end of round_compact fails.
C4_CandidatesAgree ==
    (CompactDone /\ rc_x.sign # 0 /\ rc_sig_figs >= 1 /\ rc_sig_figs <= MaxSigFigs) =>
        LET r == rc_out.ret
        IN /\ r.status = "ok"
           /\ ParseFloat(r.x_rounded_1) = ParseFloat(r.x_rounded_2)
           /\ ParseFloat(r.x_rounded_1) =
                 ComponentsValue(RoundStandardFormComponents(rc_x, rc_sig_figs), rc_sig_figs)

\* the plain form was produced by padding with zeros on the right
C4_Witness ==
    /\ CompactDone
    /\ rc_x.sign # 0
    /\ rc_sig_figs >= 1
    /\ rc_out.ret.x_rounded_1 # rc_out.ret.x_rounded_2
    /\ rc_out.ret.comps.exponent > rc_out.ret.sig_figs

\* C5: round_compact returns the shorter of its two candidates, on equal
\* lengths the candidate without exponent marker (the second one), and never a
\* string longer than the standard form.
C5_ShorterCandidate ==
    (CompactDone /\ rc_x.sign # 0 /\ rc_sig_figs >= 1) =>
        LET r == rc_out.ret
        IN /\ r.str \in {r.x_rounded_1, r.x_rounded_2}
           /\ Len(r.str) <= Len(r.x_rounded_1)
           /\ Len(r.str) <= Len(r.x_rounded_2)
           /\ Len(r.x_rounded_1) = Len(r.x_rounded_2) =>
                 /\ r.str = r.x_rounded_2
                 /\ (~HasExponentMarker(r.x_rounded_1) \/ ~HasExponentMarker(r.x_rounded_2))
                       => ~HasExponentMarker(r.str)

\* two different candidates of the same length, such as 1e2 and 100
C5_Witness ==
    /\ CompactDone
    /\ rc_x.sign # 0
    /\ rc_sig_figs >= 1
    /\ rc_out.ret.x_rounded_1 # rc_out.ret.x_rounded_2
    /\ Len(rc_out.ret.x_rounded_1) = Len(rc_out.ret.x_rounded_2)

(***************************************************************************)
(* round_compact_in_interval(x, a, b), one iteration of its loop at a time *)
(***************************************************************************)
\* variant: the lower bound is not checked
AcceptsNoLower(x_round, a, b, best_found) ==
    /\ ValLeq(ParseFloat(x_round), b)
    /\ Len(x_round) < Len(best_found)

\* variant: a candidate of the same length is taken too
AcceptsNotLonger(x_round, a, b, best_found) ==
    /\ ValLeq(a, ParseFloat(x_round))
    /\ ValLeq(ParseFloat(x_round), b)
    /\ Len(x_round) <= Len(best_found)

\* variant: the length of the candidate is not looked at
AcceptsAnyLength(x_round, a, b, best_found) ==
    /\ ValLeq(a, ParseFloat(x_round))
    /\ ValLeq(ParseFloat(x_round), b)

\* (float(x_round) >= a) and (float(x_round) <= b) and (len(x_round) < len(best_found))
Accepts(x_round, a, b, best_found) ==
    /\ ValLeq(a, ParseFloat(x_round))
    /\ ValLeq(ParseFloat(x_round), b)
    /\ Len(x_round) < Len(best_found)

\* best_found after the test of the candidate that the call r of
\* round_compact returned; no string when that call raised
BestAfter(r, a, b, best_found) ==
    IF r.status # "ok" THEN <<>>
    ELSE IF Accepts(r.str, a, b, best_found) THEN r.str
    ELSE best_found

\* variant: range(17, 0, -1), which leaves out sig_figs = 0
IntervalIterationSkipZero(x, a, b, sig_figs, best_found) ==
    IF sig_figs = 0 THEN best_found
    ELSE BestAfter(RoundCompact(x, sig_figs), a, b, best_found)

\* the body of the loop: best_found after the iteration for sig_figs
IntervalIteration(x, a, b, sig_figs, best_found) ==
    BestAfter(RoundCompact(x, sig_figs), a, b, best_found)

\* the digits x is written with in the calls of round_compact_in_interval
IvDigitChoices == {0, 5, 9}

RECURSIVE IvDigitStrings(_)
IvDigitStrings(k) ==
    IF k = 0 THEN {<<>>}
    ELSE {Append(ds, d) : ds \in IvDigitStrings(k - 1), d \in IvDigitChoices}

IvXs ==
    {ZeroVal} \cup
    {[sign |-> s, digits |-> ds, exp |-> e] :
        s \in {-1, 1},
        ds \in {d \in UNION {IvDigitStrings(k) : k \in 1..IvDigits} :
                   d[1] # 0 /\ d[Len(d)] # 0},
        e \in (-1)..IvExp}

IvBounds ==
    {ZeroVal} \cup
    {[sign |-> s, digits |-> <<d>>, exp |-> e] :
        s \in {-1, 1}, d \in {4, 9}, e \in (-1)..(IvExp + 1)}

InitInterval ==
    /\ ReaderIdle
    /\ EncoderIdle
    /\ RoundIdle
    /\ SimplestIdle
    /\ SimplifyIdle
    /\ SeriesIdle
    /\ iv_pc = "call"
    /\ iv_x \in IvXs
    /\ iv_a \in IvBounds
    /\ iv_b \in IvBounds
    /\ iv_sig_figs = 0
    /\ iv_best_found = <<>>
    /\ iv_prev = NoOutput

\* variant: only x > b is tested
OutsideIntervalAbove(x, a, b) == ValLess(b, x)

\* (a > x) or (x > b)
OutsideInterval(x, a, b) == ValLess(x, a) \/ ValLess(b, x)

\* if (a > x) or (x > b): raise ValueError
IntervalReject ==
    /\ iv_pc = "call"
    /\ OutsideInterval(iv_x, iv_a, iv_b)
    /\ iv_pc' = "ValueError"
    /\ UNCHANGED <<iv_x, iv_prev, iv_a, iv_b, iv_sig_figs, iv_best_found, rc_vars, sf_vars,
                   sp_vars, ts_vars, en_vars, fr_vars>>

\* best_found = FormattedFloat(str(x)), and the loop starts at 17 digits
IntervalEnter ==
    /\ iv_pc = "call"
    /\ ~OutsideInterval(iv_x, iv_a, iv_b)
    /\ iv_best_found' = StrFloat(iv_x)
    /\ iv_sig_figs' = MaxSigFigs
    /\ iv_pc' = "loop"
    /\ UNCHANGED <<iv_x, iv_prev, iv_a, iv_b, rc_vars, sf_vars, sp_vars, ts_vars, en_vars, fr_vars>>

\* one iteration of for sig_figs in range(17, -1, -1); the function returns
\* best_found after the iteration for sig_figs = 0
IntervalLoop ==
    /\ iv_pc = "loop"
    /\ iv_best_found' = IntervalIteration(iv_x, iv_a, iv_b, iv_sig_figs, iv_best_found)
    /\ IF iv_best_found' = <<>>
       THEN iv_pc' = "AssertionError" /\ UNCHANGED iv_sig_figs
       ELSE IF iv_sig_figs = 0
       THEN iv_pc' = "return" /\ UNCHANGED iv_sig_figs
       ELSE iv_pc' = "loop" /\ iv_sig_figs' = iv_sig_figs - 1
    /\ UNCHANGED <<iv_x, iv_prev, iv_a, iv_b, rc_vars, sf_vars, sp_vars, ts_vars, en_vars, fr_vars>>

NextInterval == IntervalReject \/ IntervalEnter \/ IntervalLoop

SpecInterval == InitInterval /\ [][NextInterval]_vars

(***************************************************************************)
(* Calls of round_compact and of round_compact_in_interval with any        *)
(* arguments, those that break the contracts included                      *)
(***************************************************************************)
ContractInputs == {ZeroVal, TwoAndHalf, ThreeAndHalf} \cup Numbers(1, NarrowExp)

InitContract ==
    \/ /\ InitRound
       /\ rc_x \in ContractInputs
    \/ InitInterval

NextContract == NextRound \/ NextInterval

SpecContract == InitContract /\ [][NextContract]_vars

(***************************************************************************)
(* Calls of round_compact_in_interval for one x on wider and wider         *)
(* intervals                                                               *)
(***************************************************************************)
\* the numbers x of these calls, and the bounds: those of the single calls and
\* x itself
WidenXs == {x \in IvXs : x.sign # -1}

WidenBounds(x) == IvBounds \cup {x}

InitWiden ==
    /\ ReaderIdle
    /\ EncoderIdle
    /\ RoundIdle
    /\ SimplestIdle
    /\ SimplifyIdle
    /\ SeriesIdle
    /\ iv_pc = "call"
    /\ iv_x \in WidenXs
    /\ iv_a \in WidenBounds(iv_x)
    /\ iv_b \in WidenBounds(iv_x)
    /\ iv_sig_figs = 0
    /\ iv_best_found = <<>>
    /\ iv_prev = NoOutput

\* the call has returned: the next call for the same x, with the lower bound
\* moved down or the upper bound moved up to the next of the bounds
IntervalWiden ==
    /\ iv_pc = "return"
    /\ \E a \in WidenBounds(iv_x), b \in WidenBounds(iv_x) :
          /\ \/ /\ b = iv_b
                /\ ValLess(a, iv_a)
                /\ \A c \in WidenBounds(iv_x) : ValLess(c, iv_a) => ValLeq(c, a)
             \/ /\ a = iv_a
                /\ ValLess(iv_b, b)
                /\ \A c \in WidenBounds(iv_x) : ValLess(iv_b, c) => ValLeq(b, c)
          /\ iv_a' = a
          /\ iv_b' = b
    /\ iv_prev' = [a |-> iv_a, b |-> iv_b, best_found |-> iv_best_found]
    /\ iv_pc' = "call"
    /\ iv_sig_figs' = 0
    /\ iv_best_found' = <<>>
    /\ UNCHANGED <<iv_x, rc_vars, sf_vars, sp_vars, ts_vars, en_vars, fr_vars>>

NextWiden == IntervalReject \/ IntervalEnter \/ IntervalLoop \/ IntervalWiden

SpecWiden == InitWiden /\ [][NextWiden]_vars

(***************************************************************************)
(* simplest_float_in(x, a, b) and round_sig(x, sig_figs) of src/tools.py   *)
(***************************************************************************)
\* np.floor(x / s) * s for x > 0 and s = 10^e: the digits of x below 10^e are
\* dropped
FloorTo(x, e) ==
    IF x.exp >= e THEN x
    ELSE Canon(1, SubSeq(x.digits, 1, Max(0, Len(x.digits) - (e - x.exp))), e)

\* np.ceil(x / s) * s for x > 0 and s = 10^e
CeilTo(x, e) ==
    IF x.exp >= e THEN x
    ELSE Canon(1, Incr(SubSeq(x.digits, 1, Max(0, Len(x.digits) - (e - x.exp)))), e)

\* np.floor(np.log10(v)) for v > 0
Log10Floor(v) == DecPt(v) - 1

\* round_sig(x, sig_figs): np.round(x * scale) / scale with scale =
\* 10^(sig_figs - magnitude - 1); np.round rounds half to even
RoundSig(x, sig_figs) ==
    IF x = ZeroVal \/ Len(x.digits) <= sig_figs THEN x
    ELSE LET kept  == SubSeq(x.digits, 1, sig_figs)
             next  == x.digits[sig_figs + 1]
             later == \E i \in (sig_figs + 2)..Len(x.digits) : x.digits[i] # 0
             up    == \/ next > 5
                      \/ next = 5 /\ (later \/ kept[sig_figs] % 2 = 1)
         IN Canon(x.sign, IF up THEN Incr(kept) ELSE kept,
                  x.exp + Len(x.digits) - sig_figs)

\* 1.0e-10 of "if (b-a) / abs(x) < 1.0e-10", and sig = 12
TooPrecise == Canon(1, <<1>>, -10)

SimplestSig == 12

\* a <= v <= b
InInterval(v, a, b) == ValLeq(a, v) /\ ValLeq(v, b)

\* the candidate returned: x1, x2, the closer of x3 and x4 to x, x3 or x4
SimplestCandidate(x, a, b, x1, x2, x3, x4) ==
    IF InInterval(x1, a, b) THEN x1
    ELSE IF InInterval(x2, a, b) THEN x2
    ELSE IF InInterval(x3, a, b) /\ InInterval(x4, a, b)
    THEN IF ValLeq(AbsVal(SubVal(x, x3)), AbsVal(SubVal(x, x4))) THEN x3 ELSE x4
    ELSE IF InInterval(x3, a, b) THEN x3
    ELSE x4

\* simplest_float_in(x, a, b); for x < 0 it calls itself with (-x, -b, -a)
RECURSIVE SimplestFloatIn(_, _, _)
SimplestFloatIn(x, a, b) ==
    IF x = ZeroVal \/ (ValLeq(a, ZeroVal) /\ ValLeq(ZeroVal, b)) THEN ZeroVal
    ELSE IF ValLess(SubVal(b, a), MulVal(TooPrecise, AbsVal(x))) THEN x
    ELSE IF ValLess(x, ZeroVal)
    THEN NegVal(SimplestFloatIn(NegVal(x), NegVal(b), NegVal(a)))
    ELSE LET mag == Log10Floor(SubVal(b, a))
         IN SimplestCandidate(x, a, b,
                RoundSig(FloorTo(x, mag + 1), SimplestSig),
                RoundSig(CeilTo(x, mag + 1), SimplestSig),
                RoundSig(FloorTo(x, mag), SimplestSig),
                RoundSig(CeilTo(x, mag), SimplestSig))

\* the calls: every x and every pair of bounds of the calls of
\* round_compact_in_interval
InitSimplest ==
    /\ ReaderIdle
    /\ EncoderIdle
    /\ RoundIdle
    /\ IntervalIdle
    /\ SimplifyIdle
    /\ SeriesIdle
    /\ sf_pc = "call"
    /\ sf_x \in IvXs
    /\ sf_a \in IvBounds
    /\ sf_b \in IvBounds
    /\ sf_out = NoOutput

CallSimplestFloatIn ==
    /\ sf_pc = "call"
    /\ sf_out' = [ret |-> SimplestFloatIn(sf_x, sf_a, sf_b)]
    /\ sf_pc' = "return"
    /\ UNCHANGED <<sf_x, sf_a, sf_b, rc_vars, iv_vars, sp_vars, ts_vars, en_vars, fr_vars>>

NextSimplest == CallSimplestFloatIn

SpecSimplest == InitSimplest /\ [][NextSimplest]_vars

(***************************************************************************)
(* simplify: the digit search and the drop rule that src/mpp02_truncate.py *)
(* and src/vsop87a_truncate.py share                                       *)
(***************************************************************************)
\* error_multipliers[k] * (abs(x - float(x_proposed)) - abs(x - float(x_current)))
ErrorAdded(x, x_proposed, x_current, error_multiplier) ==
    MulVal(error_multiplier,
           SubVal(AbsVal(SubVal(x, ParseFloat(x_proposed))),
                  AbsVal(SubVal(x, ParseFloat(x_current)))))

\* variant: only an error above zero is compared with the budget
ErrorPerCharBelowPositive(error_added, chars_saved, max_error_per_char) ==
    /\ ValLess(ZeroVal, error_added)
    /\ ValLess(error_added, MulVal(max_error_per_char, NatVal(chars_saved)))

\* error_added / chars_saved < max_error_per_char, for chars_saved > 0
ErrorPerCharBelow(error_added, chars_saved, max_error_per_char) ==
    ValLess(error_added, MulVal(max_error_per_char, NatVal(chars_saved)))

\* variant: every shorter proposal is taken
ProposalAcceptedShorter(x, x_proposed, x_current, error_multiplier, max_error_per_char) ==
    Len(x_current) - Len(x_proposed) > 0

\* (chars_saved > 0) and (error_added / chars_saved < max_error_per_char)
ProposalAccepted(x, x_proposed, x_current, error_multiplier, max_error_per_char) ==
    /\ Len(x_current) - Len(x_proposed) > 0
    /\ ErrorPerCharBelow(ErrorAdded(x, x_proposed, x_current, error_multiplier),
                         Len(x_current) - Len(x_proposed), max_error_per_char)

\* (chars_saved > 0) and not (error_added / chars_saved < max_error_per_char):
\* the rounding would have saved characters and is not taken
ProposalRejected(x, x_proposed, x_current, error_multiplier, max_error_per_char) ==
    /\ Len(x_current) - Len(x_proposed) > 0
    /\ ~ErrorPerCharBelow(ErrorAdded(x, x_proposed, x_current, error_multiplier),
                          Len(x_current) - Len(x_proposed), max_error_per_char)

\* x_current after the iteration in which round_compact returned r; no string
\* when round_compact raised
CurrentAfter(r, x, x_current, error_multiplier, max_error_per_char) ==
    IF r.status # "ok" THEN <<>>
    ELSE IF ProposalAccepted(x, r.str, x_current, error_multiplier, max_error_per_char)
    THEN r.str
    ELSE x_current

\* sum([len(x) for x in coeffs_truncated])
RECURSIVE SumLen(_)
SumLen(strs) == IF strs = <<>> THEN 0 ELSE Len(Head(strs)) + SumLen(Tail(strs))

\* [FormattedFloat.ZERO] * n
ZeroTerm(n) == Repeat(ZERO, n)

\* variant: no term is dropped
DropOrKeepNever(coeffs_truncated, separators, drop_error_added, max_error_per_char) ==
    coeffs_truncated

\* variant: the separators are not counted among the characters saved
DropOrKeepBare(coeffs_truncated, separators, drop_error_added, max_error_per_char) ==
    IF ErrorPerCharBelow(drop_error_added, SumLen(coeffs_truncated), max_error_per_char)
    THEN ZeroTerm(Len(coeffs_truncated))
    ELSE coeffs_truncated

\* the drop rule and the list returned; separators is the 6 or the 3 added to
\* the lengths
DropOrKeep(coeffs_truncated, separators, drop_error_added, max_error_per_char) ==
    IF ErrorPerCharBelow(drop_error_added, separators + SumLen(coeffs_truncated),
                         max_error_per_char)
    THEN ZeroTerm(Len(coeffs_truncated))
    ELSE coeffs_truncated

(***************************************************************************)
(* src/mpp02_truncate.py                                                   *)
(***************************************************************************)
Sizes == {"small", "medium", "large"}

\* T_MAX = 10.0
T_MAX == Canon(1, <<1>>, 1)

\* MAX_ERROR_PER_CHAR[size]: 5.0e-8, 2.0e-9, 4.0e-11
MAX_ERROR_PER_CHAR(size) ==
    CASE size = "small"  -> Canon(1, <<5>>, -8)
      [] size = "medium" -> Canon(1, <<2>>, -9)
      [] size = "large"  -> Canon(1, <<4>>, -11)

\* misc.ARCSEC = np.pi / 180.0 / 3600, the float 4.84813681109536e-06
ARCSEC == Canon(1, <<4, 8, 4, 8, 1, 3, 6, 8, 1, 1, 0, 9, 5, 3, 6>>, -20)

\* COORD_NORMALIZATION[coord]; 1.0 / 385000.0 is the float 2.597402597402597e-06
COORD_NORMALIZATION(coord) ==
    IF coord \in {0, 1} THEN ARCSEC
    ELSE Canon(1, <<2, 5, 9, 7, 4, 0, 2, 5, 9, 7, 4, 0, 2, 5, 9, 7>>, -21)

\* ntma = COORD_NORMALIZATION[coord] * np.power(T_MAX, alpha)
Mpp02Ntma(alpha, coord) == MulVal(COORD_NORMALIZATION(coord), PowVal(T_MAX, alpha))

\* variant: every coefficient of the phase polynomial has the weight of the
\* phase offset
Mpp02ErrorMultipliersFlat(a, ntma) ==
    <<ntma, MulVal(AbsVal(a), ntma), MulVal(AbsVal(a), ntma), MulVal(AbsVal(a), ntma),
      MulVal(AbsVal(a), ntma), MulVal(AbsVal(a), ntma)>>

\* [ntma, *[abs(a)*ntma*np.power(T_MAX, k) for k in range(5)]]
Mpp02ErrorMultipliers(a, ntma) ==
    <<ntma,
      MulVal(MulVal(AbsVal(a), ntma), PowVal(T_MAX, 0)),
      MulVal(MulVal(AbsVal(a), ntma), PowVal(T_MAX, 1)),
      MulVal(MulVal(AbsVal(a), ntma), PowVal(T_MAX, 2)),
      MulVal(MulVal(AbsVal(a), ntma), PowVal(T_MAX, 3)),
      MulVal(MulVal(AbsVal(a), ntma), PowVal(T_MAX, 4))>>

(***************************************************************************)
(* src/vsop87a_truncate.py                                                 *)
(***************************************************************************)
BodyNames == {"MERCURY", "VENUS", "EARTH-MOON", "MARS", "JUPITER", "SATURN",
              "URANUS", "NEPTUNE"}

MEAN_DISTANCE_FROM_SUN(body_name) ==
    CASE body_name = "MERCURY"    -> Canon(1, <<3, 9>>, -2)
      [] body_name = "VENUS"      -> Canon(1, <<7, 2>>, -2)
      [] body_name = "MARS"       -> Canon(1, <<1, 5, 2>>, -2)
      [] body_name = "JUPITER"    -> Canon(1, <<5, 2>>, -1)
      [] body_name = "SATURN"     -> Canon(1, <<9, 5, 4>>, -2)
      [] body_name = "URANUS"     -> Canon(1, <<1, 9, 2>>, -1)
      [] body_name = "NEPTUNE"    -> Canon(1, <<3, 0, 0, 6>>, -2)
      [] body_name = "EARTH-MOON" -> Canon(1, <<1>>, 0)

\* ERROR_CONFIGS[body_name]: ErrorConfig(t_max, max_error_per_char)
ERROR_CONFIGS(body_name) ==
    CASE body_name = "MERCURY"    ->
            [t_max |-> Canon(1, <<5>>, 1), max_error_per_char |-> Canon(1, <<5>>, -1)]
      [] body_name = "VENUS"      ->
            [t_max |-> Canon(1, <<5>>, 1), max_error_per_char |-> Canon(1, <<2>>, -1)]
      [] body_name = "EARTH-MOON" ->
            [t_max |-> Canon(1, <<5>>, 1), max_error_per_char |-> Canon(1, <<2, 5>>, -2)]
      [] body_name = "MARS"       ->
            [t_max |-> Canon(1, <<3>>, 1), max_error_per_char |-> Canon(1, <<7, 5>>, -2)]
      [] body_name = "JUPITER"    ->
            [t_max |-> Canon(1, <<3>>, 1), max_error_per_char |-> Canon(1, <<1>>, 0)]
      [] body_name = "SATURN"     ->
            [t_max |-> Canon(1, <<2>>, 1), max_error_per_char |-> Canon(1, <<2>>, 0)]
      [] body_name = "URANUS"     ->
            [t_max |-> Canon(1, <<3>>, 1), max_error_per_char |-> Canon(1, <<2, 5>>, -1)]
      [] body_name = "NEPTUNE"    ->
            [t_max |-> Canon(1, <<5>>, 1), max_error_per_char |-> Canon(1, <<1>>, 0)]

\* MAX_ERROR_MULTIPLIER[size]: 5.0e-7, 1.0e-8, 3.0e-10
MAX_ERROR_MULTIPLIER(size) ==
    CASE size = "small"  -> Canon(1, <<5>>, -7)
      [] size = "medium" -> Canon(1, <<1>>, -8)
      [] size = "large"  -> Canon(1, <<3>>, -10)

\* max_error_per_char of simplify(a, b, c, alpha, body_name, size)
Vsop87aMaxErrorPerChar(body_name, size) ==
    MulVal(MulVal(MAX_ERROR_MULTIPLIER(size), ERROR_CONFIGS(body_name).max_error_per_char),
           MEAN_DISTANCE_FROM_SUN(body_name))

\* tma = np.power(t_max, alpha)
Vsop87aTma(alpha, body_name) == PowVal(ERROR_CONFIGS(body_name).t_max, alpha)

\* [tma, abs(a)*tma, abs(a)*tma*t_max]
Vsop87aErrorMultipliers(a, tma, t_max) ==
    <<tma, MulVal(AbsVal(a), tma), MulVal(MulVal(AbsVal(a), tma), t_max)>>

(***************************************************************************)
(* simplify, statement by statement                                        *)
(***************************************************************************)
\* the arguments of a call of simplify
Mpp02Args(coeffs, alpha, coord, size) ==
    [fn |-> "mpp02", coeffs |-> coeffs, alpha |-> alpha, coord |-> coord,
     body_name |-> "", size |-> size]

Vsop87aArgs(coeffs, alpha, body_name, size) ==
    [fn |-> "vsop87a", coeffs |-> coeffs, alpha |-> alpha, coord |-> 0,
     body_name |-> body_name, size |-> size]

\* the frame of simplify: where it is, its arguments and fresh locals
SimplifyFrame(pc, args) ==
    /\ sp_pc' = pc
    /\ sp_args' = args
    /\ sp_max_error_per_char' = ZeroVal
    /\ sp_ntma' = ZeroVal
    /\ sp_error_multipliers' = <<>>
    /\ sp_k' = 0
    /\ sp_sig_figs' = 0
    /\ sp_x_current' = <<>>
    /\ sp_coeffs_truncated' = <<>>
    /\ sp_rejected' = {}
    /\ sp_out' = <<>>

\* simplify is entered with args
SimplifyCalled(args) == SimplifyFrame("call", args)

\* the caller has taken the list that simplify returned
SimplifyLeft == SimplifyFrame("idle", NoOutput)

\* src/mpp02_truncate.py: max_error_per_char, ntma, a, error_multipliers and the
\* empty coeffs_truncated
Mpp02SimplifyEnter ==
    /\ sp_pc = "call"
    /\ sp_args.fn = "mpp02"
    /\ sp_max_error_per_char' = MAX_ERROR_PER_CHAR(sp_args.size)
    /\ sp_ntma' = Mpp02Ntma(sp_args.alpha, sp_args.coord)
    /\ sp_error_multipliers' = Mpp02ErrorMultipliers(sp_args.coeffs[1], sp_ntma')
    /\ sp_coeffs_truncated' = <<>>
    /\ sp_k' = 0
    /\ sp_pc' = "coefficient"
    /\ UNCHANGED <<sp_args, sp_sig_figs, sp_x_current, sp_rejected, sp_out, sp_prev,
                   rc_vars, sf_vars, iv_vars, ts_vars, en_vars, fr_vars>>

\* src/vsop87a_truncate.py: t_max, max_error_per_char, tma, coeffs,
\* error_multipliers and the empty coeffs_truncated
Vsop87aSimplifyEnter ==
    /\ sp_pc = "call"
    /\ sp_args.fn = "vsop87a"
    /\ sp_max_error_per_char' = Vsop87aMaxErrorPerChar(sp_args.body_name, sp_args.size)
    /\ sp_ntma' = Vsop87aTma(sp_args.alpha, sp_args.body_name)
    /\ sp_error_multipliers' =
          Vsop87aErrorMultipliers(sp_args.coeffs[1], sp_ntma',
                                  ERROR_CONFIGS(sp_args.body_name).t_max)
    /\ sp_coeffs_truncated' = <<>>
    /\ sp_k' = 0
    /\ sp_pc' = "coefficient"
    /\ UNCHANGED <<sp_args, sp_sig_figs, sp_x_current, sp_rejected, sp_out, sp_prev,
                   rc_vars, sf_vars, iv_vars, ts_vars, en_vars, fr_vars>>

\* for k, x in enumerate(coeffs): x_current = FormattedFloat(str(x)), and the
\* digit search starts at 17 significant digits
SimplifyCoefficient ==
    /\ sp_pc = "coefficient"
    /\ sp_x_current' = StrFloat(sp_args.coeffs[sp_k + 1])
    /\ sp_sig_figs' = MaxSigFigs
    /\ sp_rejected' = {}
    /\ sp_pc' = "proposal"
    /\ UNCHANGED <<sp_args, sp_max_error_per_char, sp_ntma, sp_error_multipliers, sp_k,
                   sp_coeffs_truncated, sp_out, sp_prev,
                   rc_vars, sf_vars, iv_vars, ts_vars, en_vars, fr_vars>>

\* one iteration of for sig_figs in range(17, -1, -1), in which round_compact
\* returned or raised r; the last one is followed by
\* coeffs_truncated.append(x_current) and the next coefficient
SimplifyIteration(r) ==
    /\ sp_pc = "proposal"
    /\ sp_x_current' = CurrentAfter(r, sp_args.coeffs[sp_k + 1], sp_x_current,
                                    sp_error_multipliers[sp_k + 1], sp_max_error_per_char)
    /\ sp_rejected' =
          IF r.status = "ok"
             /\ ProposalRejected(sp_args.coeffs[sp_k + 1], r.str, sp_x_current,
                                 sp_error_multipliers[sp_k + 1], sp_max_error_per_char)
          THEN sp_rejected \cup {sp_sig_figs}
          ELSE sp_rejected
    /\ IF sp_x_current' = <<>>
       THEN /\ sp_pc' = r.status
            /\ UNCHANGED <<sp_k, sp_sig_figs, sp_coeffs_truncated>>
       ELSE IF sp_sig_figs > 0
       THEN /\ sp_sig_figs' = sp_sig_figs - 1
            /\ UNCHANGED <<sp_pc, sp_k, sp_coeffs_truncated>>
       ELSE /\ sp_coeffs_truncated' = Append(sp_coeffs_truncated, sp_x_current')
            /\ sp_k' = sp_k + 1
            /\ sp_pc' = IF sp_k + 1 < Len(sp_args.coeffs) THEN "coefficient" ELSE "drop"
            /\ UNCHANGED sp_sig_figs
    /\ UNCHANGED <<sp_args, sp_max_error_per_char, sp_ntma, sp_error_multipliers, sp_out,
                   sp_prev, rc_vars, sf_vars, iv_vars, ts_vars, en_vars, fr_vars>>

SimplifyProposal == SimplifyIteration(RoundCompact(sp_args.coeffs[sp_k + 1], sp_sig_figs))

\* src/mpp02_truncate.py: drop_chars_saved = 6 + ..., drop_error_added =
\* ntma*abs(a), and the return
Mpp02SimplifyDrop ==
    /\ sp_pc = "drop"
    /\ sp_args.fn = "mpp02"
    /\ sp_out' = DropOrKeep(sp_coeffs_truncated, 6,
                            MulVal(sp_ntma, AbsVal(sp_args.coeffs[1])),
                            sp_max_error_per_char)
    /\ sp_pc' = "return"
    /\ UNCHANGED <<sp_args, sp_locals, sp_prev, rc_vars, sf_vars, iv_vars, ts_vars, en_vars, fr_vars>>

\* src/vsop87a_truncate.py: drop_chars_saved = 3 + ..., drop_error_added =
\* tma*abs(a), and the return
Vsop87aSimplifyDrop ==
    /\ sp_pc = "drop"
    /\ sp_args.fn = "vsop87a"
    /\ sp_out' = DropOrKeep(sp_coeffs_truncated, 3,
                            MulVal(sp_ntma, AbsVal(sp_args.coeffs[1])),
                            sp_max_error_per_char)
    /\ sp_pc' = "return"
    /\ UNCHANGED <<sp_args, sp_locals, sp_prev, rc_vars, sf_vars, iv_vars, ts_vars, en_vars, fr_vars>>

(***************************************************************************)
(* Calls of simplify: a term is simplified under one preset and then under *)
(* another, as the three runs of truncate_and_write_file do                *)
(***************************************************************************)
\* lunar terms: an amplitude in arcsec or km and the five coefficients of the
\* phase polynomial
Mpp02Terms ==
    {<<a, p0, Canon(1, <<8, 3, 2, 8, 6, 9>>, -2), Canon(-1, <<1, 5>>, -4),
       Canon(1, <<3>>, -7), ZeroVal>> :
        a  \in {ZeroVal, Canon(1, <<3>>, -4), Canon(1, <<1, 0, 0, 3>>, -4),
                Canon(-1, <<2, 2, 6, 3, 9, 5, 5>>, -2)},
        p0 \in {Canon(1, <<2, 3, 5, 5>>, -3), Canon(1, <<1, 9, 9, 6>>, -3)}}

\* planetary terms: amplitude a, phase b and frequency c
Vsop87aTerms ==
    {<<a, b, Canon(1, <<5>>, -3)>> :
        a \in {ZeroVal, Canon(1, <<9>>, -7), Canon(-1, <<2, 5>>, -2)},
        b \in {Canon(1, <<5, 2>>, -1), Canon(1, <<4, 5>>, -2)}}

\* the planets of the calls
SimplifyBodies == {"MERCURY", "VENUS", "MARS"}

InitSimplify ==
    /\ ReaderIdle
    /\ EncoderIdle
    /\ RoundIdle
    /\ SimplestIdle
    /\ IntervalIdle
    /\ sp_pc = "call"
    /\ sp_args \in
          {Mpp02Args(t, alpha, coord, size) :
              t \in Mpp02Terms, alpha \in 0..MaxAlpha, coord \in 0..2, size \in Sizes}
          \cup
          {Vsop87aArgs(t, alpha, body_name, size) :
              t \in Vsop87aTerms, alpha \in 0..MaxAlpha, body_name \in SimplifyBodies,
              size \in Sizes}
    /\ SimplifyFresh
    /\ sp_prev = NoOutput
    /\ SeriesIdle

\* the caller keeps the result and simplifies the same term for another size
Mpp02SimplifyAgain ==
    /\ sp_pc = "return"
    /\ sp_args.fn = "mpp02"
    /\ sp_prev' = [args |-> sp_args, out |-> sp_out]
    /\ \E size \in Sizes \ {sp_args.size} :
          SimplifyCalled([sp_args EXCEPT !.size = size])
    /\ UNCHANGED <<rc_vars, sf_vars, iv_vars, ts_vars, en_vars, fr_vars>>

\* the caller keeps the result and simplifies the same term for another planet
\* or size
Vsop87aSimplifyAgain ==
    /\ sp_pc = "return"
    /\ sp_args.fn = "vsop87a"
    /\ sp_prev' = [args |-> sp_args, out |-> sp_out]
    /\ \E body_name \in SimplifyBodies, size \in Sizes :
          /\ <<body_name, size>> # <<sp_args.body_name, sp_args.size>>
          /\ SimplifyCalled([sp_args EXCEPT !.body_name = body_name, !.size = size])
    /\ UNCHANGED <<rc_vars, sf_vars, iv_vars, ts_vars, en_vars, fr_vars>>

NextSimplify ==
    \/ Mpp02SimplifyEnter
    \/ Vsop87aSimplifyEnter
    \/ SimplifyCoefficient
    \/ SimplifyProposal
    \/ Mpp02SimplifyDrop
    \/ Vsop87aSimplifyDrop
    \/ Mpp02SimplifyAgain
    \/ Vsop87aSimplifyAgain

SpecSimplify == InitSimplify /\ [][NextSimplify]_vars

(***************************************************************************)
(* truncate_series of src/mpp02_truncate.py and src/vsop87a_truncate.py,   *)
(* statement by statement.  obj_raw is its list of groups in the order of  *)
(* the loops: a group has coord, alpha and its terms (the rows of          *)
(* np.array(group['coeffs']).reshape(-1, 6) or (-1, 3)), and in the        *)
(* planetary file the body_name it is listed under                         *)
(***************************************************************************)
\* variant: no term is left out
TermSurvivesAlways(c_new) == Len(c_new) > 0

\* not (float(c_new[0]) == 0.0), the test that continues with the next term
TermSurvives(c_new) == ParseFloat(c_new[1]) # ZeroVal

\* coeffs_truncated.extend(c_new) unless the term is left out
TermsAfter(coeffs_truncated, c_new) ==
    IF TermSurvives(c_new) THEN coeffs_truncated \o c_new ELSE coeffs_truncated

\* { 'coord': coord, 'alpha': alpha, 'coeffs': coeffs_truncated } and the body it
\* is appended under
GroupTruncated(group, coeffs_truncated) ==
    [body_name |-> group.body_name, coord |-> group.coord, alpha |-> group.alpha,
     coeffs |-> coeffs_truncated]

\* variant: the group is put in front
GroupsAfterFront(groups_truncated, group, coeffs_truncated) ==
    IF coeffs_truncated # <<>>
    THEN <<GroupTruncated(group, coeffs_truncated)>> \o groups_truncated
    ELSE groups_truncated

\* groups_truncated.append(...) if coeffs_truncated
GroupsAfter(groups_truncated, group, coeffs_truncated) ==
    IF coeffs_truncated # <<>>
    THEN Append(groups_truncated, GroupTruncated(group, coeffs_truncated))
    ELSE groups_truncated

\* the arguments of the call of simplify for term t of group
SeriesSimplifyArgs(fn, group, t, size) ==
    IF fn = "mpp02" THEN Mpp02Args(group.coeffs[t], group.alpha, group.coord, size)
    ELSE Vsop87aArgs(group.coeffs[t], group.alpha, group.body_name, size)

\* variant: the global entries are left out
SeriesObjectBare(obj_raw, groups_truncated) == [groups |-> groups_truncated]

\* the object returned: the global entries of obj_raw ('W', 'PC', 'QC' of the
\* lunar file, 'matrix' of the planetary file) and the new groups
SeriesObject(obj_raw, groups_truncated) ==
    IF obj_raw.fn = "mpp02"
    THEN [W |-> obj_raw.W, PC |-> obj_raw.PC, QC |-> obj_raw.QC, groups |-> groups_truncated]
    ELSE [matrix |-> obj_raw.matrix, groups |-> groups_truncated]

\* the top-level keys that truncate_series reads for the object it returns
\* and that obj_raw does not have
SeriesMissingKeys(obj_raw) ==
    (IF obj_raw.fn = "mpp02" THEN {"W", "PC", "QC"} ELSE {"matrix"}) \ DOMAIN obj_raw

\* what round_compact raises inside simplify
Exceptions == {"AssertionError", "TypeError"}

\* the group of the outer loop
SeriesGroup == ts_obj_raw.groups[ts_g]

\* for group in groups, with a group left: coeffs_truncated = [] and the loop
\* over its terms starts
SeriesEnterGroup ==
    /\ ts_pc = "group"
    /\ ts_g <= Len(ts_obj_raw.groups)
    /\ SeriesGroup.body_name # "EARTH"
    /\ ts_coeffs_truncated' = <<>>
    /\ ts_t' = 1
    /\ ts_pc' = "term"
    /\ UNCHANGED <<ts_obj_raw, ts_size, ts_g, ts_groups_truncated, ts_out, ts_simplified,
                   rc_vars, sf_vars, iv_vars, sp_vars, en_vars, fr_vars>>

\* if body_name == 'EARTH': continue
SeriesSkipEarth ==
    /\ ts_pc = "group"
    /\ ts_g <= Len(ts_obj_raw.groups)
    /\ SeriesGroup.body_name = "EARTH"
    /\ ts_g' = ts_g + 1
    /\ UNCHANGED <<ts_pc, ts_obj_raw, ts_size, ts_t, ts_coeffs_truncated,
                   ts_groups_truncated, ts_out, ts_simplified, rc_vars, sf_vars, iv_vars, sp_vars, en_vars, fr_vars>>

\* for c in coeffs, with a term left: simplify is called
SeriesCallSimplify ==
    /\ ts_pc = "term"
    /\ ts_t <= Len(SeriesGroup.coeffs)
    /\ SimplifyCalled(SeriesSimplifyArgs(ts_obj_raw.fn, SeriesGroup, ts_t, ts_size))
    /\ ts_pc' = "simplify"
    /\ UNCHANGED <<ts_obj_raw, ts_size, ts_g, ts_t, ts_coeffs_truncated,
                   ts_groups_truncated, ts_out, ts_simplified, sp_prev, rc_vars, sf_vars, iv_vars, en_vars, fr_vars>>

\* simplify has returned c_new: the term is left out or its coefficients are
\* added to coeffs_truncated
SeriesTakeTerm ==
    /\ ts_pc = "simplify"
    /\ sp_pc = "return"
    /\ ts_coeffs_truncated' = TermsAfter(ts_coeffs_truncated, sp_out)
    /\ ts_simplified' = Append(ts_simplified, [g |-> ts_g, t |-> ts_t, c_new |-> sp_out])
    /\ ts_t' = ts_t + 1
    /\ ts_pc' = "term"
    /\ SimplifyLeft
    /\ UNCHANGED <<ts_obj_raw, ts_size, ts_g, ts_groups_truncated, ts_out, sp_prev,
                   rc_vars, sf_vars, iv_vars, en_vars, fr_vars>>

\* simplify has raised: truncate_series has no handler, the exception leaves it
\* and nothing is returned
SeriesRaise ==
    /\ ts_pc = "simplify"
    /\ sp_pc \in Exceptions
    /\ ts_pc' = sp_pc
    /\ UNCHANGED <<ts_obj_raw, ts_size, ts_g, ts_t, ts_coeffs_truncated,
                   ts_groups_truncated, ts_out, ts_simplified,
                   rc_vars, sf_vars, iv_vars, sp_vars, en_vars, fr_vars>>

\* the terms of the group are done: the group is appended if it has terms left
SeriesCloseGroup ==
    /\ ts_pc = "term"
    /\ ts_t > Len(SeriesGroup.coeffs)
    /\ ts_groups_truncated' = GroupsAfter(ts_groups_truncated, SeriesGroup, ts_coeffs_truncated)
    /\ ts_g' = ts_g + 1
    /\ ts_pc' = "group"
    /\ UNCHANGED <<ts_obj_raw, ts_size, ts_t, ts_coeffs_truncated, ts_out, ts_simplified,
                   rc_vars, sf_vars, iv_vars, sp_vars, en_vars, fr_vars>>

\* the groups are done: the object with groups_truncated (bodies_truncated) is
\* returned, or obj_raw['PC'] raises KeyError
SeriesReturn ==
    /\ ts_pc = "group"
    /\ ts_g > Len(ts_obj_raw.groups)
    /\ IF SeriesMissingKeys(ts_obj_raw) = {}
       THEN /\ ts_out' = SeriesObject(ts_obj_raw, ts_groups_truncated)
            /\ ts_pc' = "return"
       ELSE /\ ts_pc' = "KeyError"
            /\ UNCHANGED ts_out
    /\ UNCHANGED <<ts_obj_raw, ts_size, ts_g, ts_t, ts_coeffs_truncated,
                   ts_groups_truncated, ts_simplified, rc_vars, sf_vars, iv_vars, sp_vars, en_vars, fr_vars>>

(***************************************************************************)
(* One call of truncate_series                                             *)
(***************************************************************************)
\* the lists of at most n elements of S
RECURSIVE ListsUpTo(_, _)
ListsUpTo(S, n) ==
    IF n = 0 THEN {<<>>}
    ELSE ListsUpTo(S, n - 1) \cup {Append(l, e) : l \in ListsUpTo(S, n - 1), e \in S}

\* two lunar terms, the second with a thousand times the amplitude of the first,
\* and a term whose constant phase is NaN
Mpp02SeriesTerms ==
    {<<a, Canon(1, <<2, 3, 5, 5>>, -3), Canon(1, <<8, 3, 2, 8, 6, 9>>, -2),
       Canon(-1, <<1, 5>>, -4), Canon(1, <<3>>, -7), ZeroVal>> :
        a \in {Canon(1, <<2>>, -2), Canon(1, <<2>>, 1)}}
    \cup {<<Canon(1, <<2>>, 1), NaNVal, Canon(1, <<8, 3, 2, 8, 6, 9>>, -2),
            Canon(-1, <<1, 5>>, -4), Canon(1, <<3>>, -7), ZeroVal>>}

\* a lunar file: a group of longitude terms and a group of at most MaxTerms
\* equal distance terms
Mpp02Series ==
    {[fn |-> "mpp02",
      W |-> <<Canon(1, <<3, 8, 1, 0, 3, 4>>, -5), Canon(1, <<8, 3, 9, 9, 7, 0, 9, 1>>, -4)>>,
      PC |-> <<Canon(1, <<1, 7>>, -4), Canon(-1, <<4>>, -2)>>,
      QC |-> <<Canon(-1, <<1, 1, 3>>, -6), ZeroVal>>,
      groups |-> <<[body_name |-> "", coord |-> 0, alpha |-> 0, coeffs |-> l1],
                   [body_name |-> "", coord |-> 2, alpha |-> 1,
                    coeffs |-> Repeat(<<Canon(1, <<3>>, -4), Canon(1, <<5>>, -1),
                                        Canon(1, <<8, 3, 2, 8, 6, 9>>, -2), ZeroVal, ZeroVal,
                                        ZeroVal>>, n2)]>>] :
        l1 \in ListsUpTo(Mpp02SeriesTerms, MaxTerms), n2 \in 0..MaxTerms}

\* src/mpp02_converter.py write_json: the object written to the raw file has
\* the keys '_comment', 'W' and 'groups', and only groups with coefficients
\* (the text of '_comment' is left out of the objects of the model)
WriteJson(w0, groups) ==
    [fn |-> "mpp02", W |-> w0,
     groups |-> SelectSeq(groups, LAMBDA group : Len(group.coeffs) > 0)]

\* the lunar files that write_json writes: a group of longitude terms
Mpp02ConverterSeries ==
    {WriteJson(<<Canon(1, <<3, 8, 1, 0, 3, 4>>, -5), Canon(1, <<8, 3, 9, 9, 7, 0, 9, 1>>, -4)>>,
               <<[body_name |-> "", coord |-> 0, alpha |-> 0, coeffs |-> l1],
                 [body_name |-> "", coord |-> 1, alpha |-> 0, coeffs |-> <<>>]>>) :
        l1 \in ListsUpTo(Mpp02SeriesTerms, MaxTerms) \ {<<>>}}

\* two planetary terms
Vsop87aSeriesTerms ==
    {<<a, Canon(1, <<5, 2>>, -1), Canon(1, <<5>>, -3)>> :
        a \in {Canon(1, <<9>>, -7), Canon(-1, <<2, 5>>, -2)}}

\* a planetary file: EARTH, a group of Venus and a group of Mars
Vsop87aSeries ==
    {[fn |-> "vsop87a",
      matrix |-> <<NatVal(1), Canon(1, <<4, 4>>, -8), Canon(-1, <<9, 1, 7>>, -3)>>,
      groups |-> <<[body_name |-> "EARTH", coord |-> 0, alpha |-> 0,
                    coeffs |-> <<<<Canon(-1, <<2, 5>>, -2), Canon(1, <<5, 2>>, -1),
                                   Canon(1, <<5>>, -3)>>>>],
                   [body_name |-> "VENUS", coord |-> 0, alpha |-> 0, coeffs |-> l1],
                   [body_name |-> "MARS", coord |-> 1, alpha |-> 1,
                    coeffs |-> Repeat(<<Canon(1, <<9>>, -8), Canon(1, <<4, 5>>, -2),
                                        Canon(1, <<5>>, -3)>>, n2)]>>] :
        l1 \in ListsUpTo(Vsop87aSeriesTerms, MaxTerms), n2 \in 0..MaxTerms}

InitSeries ==
    /\ ReaderIdle
    /\ EncoderIdle
    /\ RoundIdle
    /\ SimplestIdle
    /\ IntervalIdle
    /\ SimplifyIdle
    /\ ts_pc = "group"
    /\ ts_obj_raw \in Mpp02Series \cup Mpp02ConverterSeries \cup Vsop87aSeries
    /\ ts_size \in Sizes
    /\ ts_g = 1
    /\ ts_t = 0
    /\ ts_coeffs_truncated = <<>>
    /\ ts_groups_truncated = <<>>
    /\ ts_out = NoOutput
    /\ ts_simplified = <<>>

NextSeries ==
    \/ SeriesEnterGroup
    \/ SeriesSkipEarth
    \/ SeriesCallSimplify
    \/ Mpp02SimplifyEnter
    \/ Vsop87aSimplifyEnter
    \/ SimplifyCoefficient
    \/ SimplifyProposal
    \/ Mpp02SimplifyDrop
    \/ Vsop87aSimplifyDrop
    \/ SeriesTakeTerm
    \/ SeriesRaise
    \/ SeriesCloseGroup
    \/ SeriesReturn

SpecSeries == InitSeries /\ [][NextSeries]_vars

(***************************************************************************)
(* _test_round_compact on doubles.  A double is m * 2^e with a 53-bit m;   *)
(* its decimal expansion is exact and can have more than 17 digits.        *)
(* float(s) is the double nearest to the value of s, the one with the even *)
(* m on a tie.  The doubles of the model are given by base, a double in    *)
(* the binade [2^b, 2^(b+1)), and the number j of steps of 2^(b-52) above  *)
(* it                                                                      *)
(***************************************************************************)
\* 2^k for the k of the doubles of the model, each in full
TwoTo(k) ==
    CASE k = -57 ->
            Canon(1, <<6, 9, 3, 8, 8, 9, 3, 9, 0, 3, 9, 0, 7, 2, 2, 8, 3, 7, 7, 6, 4, 7, 6, 9,
                       7, 9, 2, 5, 5, 6, 7, 6, 2, 6, 9, 5, 3, 1, 2, 5>>, -57)
      [] k = -56 ->
            Canon(1, <<1, 3, 8, 7, 7, 7, 8, 7, 8, 0, 7, 8, 1, 4, 4, 5, 6, 7, 5, 5, 2, 9, 5, 3,
                       9, 5, 8, 5, 1, 1, 3, 5, 2, 5, 3, 9, 0, 6, 2, 5>>, -56)
      [] k = -54 ->
            Canon(1, <<5, 5, 5, 1, 1, 1, 5, 1, 2, 3, 1, 2, 5, 7, 8, 2, 7, 0, 2, 1, 1, 8, 1, 5,
                       8, 3, 4, 0, 4, 5, 4, 1, 0, 1, 5, 6, 2, 5>>, -54)
      [] k = -53 ->
            Canon(1, <<1, 1, 1, 0, 2, 2, 3, 0, 2, 4, 6, 2, 5, 1, 5, 6, 5, 4, 0, 4, 2, 3, 6, 3,
                       1, 6, 6, 8, 0, 9, 0, 8, 2, 0, 3, 1, 2, 5>>, -53)
      [] k = -52 ->
            Canon(1, <<2, 2, 2, 0, 4, 4, 6, 0, 4, 9, 2, 5, 0, 3, 1, 3, 0, 8, 0, 8, 4, 7, 2, 6,
                       3, 3, 3, 6, 1, 8, 1, 6, 4, 0, 6, 2, 5>>, -52)
      [] k = -44 ->
            Canon(1, <<5, 6, 8, 4, 3, 4, 1, 8, 8, 6, 0, 8, 0, 8, 0, 1, 4, 8, 6, 9, 6, 8, 9, 9,
                       4, 1, 4, 0, 6, 2, 5>>, -44)
      [] k = -43 ->
            Canon(1, <<1, 1, 3, 6, 8, 6, 8, 3, 7, 7, 2, 1, 6, 1, 6, 0, 2, 9, 7, 3, 9, 3, 7, 9,
                       8, 8, 2, 8, 1, 2, 5>>, -43)
      [] k = 6 ->
            Canon(1, <<6, 4>>, 0)
      [] k = 7 ->
            Canon(1, <<1, 2, 8>>, 0)

\* the double 0.1
Tenth ==
    Canon(1, <<1, 0, 0, 0, 0, 0, 0, 0, 0, 0, 0, 0, 0, 0, 0, 0, 0, 5, 5, 5, 1, 1, 1, 5, 1, 2,
               3, 1, 2, 5, 7, 8, 2, 7, 0, 2, 1, 1, 8, 1, 5, 8, 3, 4, 0, 4, 5, 4, 1, 0, 1, 5,
               6, 2, 5>>, -55)

\* base, the exponent b of its binade, whether its m is even and whether base is
\* 2^b
DoubleBases ==
    {[base |-> NatVal(1), b |-> 0, even |-> TRUE, power_of_two |-> TRUE],
     [base |-> NatVal(1000), b |-> 9, even |-> TRUE, power_of_two |-> FALSE],
     [base |-> Tenth, b |-> -4, even |-> TRUE, power_of_two |-> FALSE],
     [base |-> Canon(1, <<1>>, 18), b |-> 59, even |-> TRUE, power_of_two |-> FALSE]}

\* the double sign * (base + j * 2^(b-52)): its value, half the distance to the
\* next double below and above its absolute value, and whether its m is even
Double(sign, d, j) ==
    [val   |-> Canon(sign, AddVal(d.base, MulVal(NatVal(j), TwoTo(d.b - 52))).digits,
                     AddVal(d.base, MulVal(NatVal(j), TwoTo(d.b - 52))).exp),
     below |-> IF j = 0 /\ d.power_of_two THEN TwoTo(d.b - 54) ELSE TwoTo(d.b - 53),
     above |-> TwoTo(d.b - 53),
     even  |-> d.even = (j % 2 = 0)]

TestDoubles == {Double(sign, d, j) : sign \in {-1, 1}, d \in DoubleBases, j \in 0..DoubleSteps}

\* the double of the model with value x
DoubleOf(x) == CHOOSE t \in TestDoubles : t.val = x

\* float(s) == x for the double x: the value of s is nearer to x than to the
\* doubles next to it, or half way to one of them when the m of x is even
ReadsAs(s, x) ==
    LET t  == DoubleOf(x)
        v  == AbsVal(ParseFloat(s))
        lo == SubVal(AbsVal(x), t.below)
        hi == AddVal(AbsVal(x), t.above)
    IN /\ ParseFloat(s).sign = x.sign
       /\ \/ ValLess(lo, v) /\ ValLess(v, hi)
          \/ t.even /\ (v = lo \/ v = hi)

\* for t in tests
InitTest ==
    /\ ReaderIdle
    /\ EncoderIdle
    /\ IntervalIdle
    /\ SimplestIdle
    /\ SimplifyIdle
    /\ SeriesIdle
    /\ rc_pc = "test"
    /\ rc_x \in {t.val : t \in TestDoubles}
    /\ rc_sig_figs = 1
    /\ rc_out = NoOutput

\* what one iteration of for sig_num in range(1, 20) computes: result and
\* round_compact(t, 17), and whether assert t == float(round_compact(t, 17))
\* holds
TestRecord(t, result, round17) ==
    [fn |-> "_test_round_compact",
     result |-> result,
     round17 |-> round17,
     assert_ok |-> ReadsAs(round17.str, t)]

TestIteration(t, sig_num) ==
    TestRecord(t, RoundCompact(t, sig_num), RoundCompact(t, RoundTripSigFigs))

\* one iteration of for sig_num in range(1, 20)
TestRoundCompact ==
    /\ rc_pc = "test"
    /\ rc_sig_figs <= TestSigNums
    /\ rc_out' = TestIteration(rc_x, rc_sig_figs)
    /\ IF rc_out'.result.status # "ok"
       THEN rc_pc' = rc_out'.result.status /\ UNCHANGED rc_sig_figs
       ELSE IF rc_out'.round17.status # "ok"
       THEN rc_pc' = rc_out'.round17.status /\ UNCHANGED rc_sig_figs
       ELSE IF ~rc_out'.assert_ok
       THEN rc_pc' = "AssertionError" /\ UNCHANGED rc_sig_figs
       ELSE rc_sig_figs' = rc_sig_figs + 1 /\ UNCHANGED rc_pc
    /\ UNCHANGED <<rc_x, iv_vars, sf_vars, sp_vars, ts_vars, en_vars, fr_vars>>

NextTest == TestRoundCompact

SpecTest == InitTest /\ [][NextTest]_vars

(***************************************************************************)
(* FormattedFloatEncoder (src/tools/round_compact.py): json.dumps of a     *)
(* list with the encoder, apply_formatting on the text, and json.loads of  *)
(* the result as write_data does (src/mpp02_truncate.py)                   *)
(***************************************************************************)
Quote == "\""

Backslash == "\\"

\* 'FormattedFloat('
FormattedFloatOpen ==
    <<"F", "o", "r", "m", "a", "t", "t", "e", "d", "F", "l", "o", "a", "t", "(">>

\* FormattedFloat.__repr__, which str(obj) calls
FormattedFloatRepr(as_str) == FormattedFloatOpen \o as_str \o <<")">>

\* the characters of a JSON string without its quotes: json.dumps writes a
\* backslash before a quote and before a backslash
RECURSIVE JsonEscape(_)
JsonEscape(text) ==
    IF text = <<>> THEN <<>>
    ELSE (IF Head(text) \in {Quote, Backslash} THEN <<Backslash, Head(text)>>
          ELSE <<Head(text)>>) \o JsonEscape(Tail(text))

JsonString(text) == <<Quote>> \o JsonEscape(text) \o <<Quote>>

\* json.dumps of one element: a float by float.__repr__, a str as a JSON
\* string, a FormattedFloat through FormattedFloatEncoder.default
EncodeDefault(item) ==
    IF item.kind = "float" THEN StrFloat(item.val)
    ELSE IF item.kind = "str" THEN JsonString(item.text)
    ELSE JsonString(FormattedFloatRepr(item.as_str))

RECURSIVE JoinItems(_, _)
JoinItems(texts, k) ==
    IF k > Len(texts) THEN <<>>
    ELSE (IF k > 1 THEN <<",", " ">> ELSE <<>>) \o texts[k] \o JoinItems(texts, k + 1)

RECURSIVE MapEncode(_, _)
MapEncode(data, k) ==
    IF k > Len(data) THEN <<>>
    ELSE <<EncodeDefault(data[k])>> \o MapEncode(data, k + 1)

\* json.dumps(data, cls=FormattedFloatEncoder) of a list
JsonDumps(data) == <<"[">> \o JoinItems(MapEncode(data, 1), 1) \o <<"]">>

\* the pattern "FormattedFloat\(([^)]+)\)" tried at position i of s: the
\* position of the closing quote of the match, 0 when there is no match at i.
\* [^)]+ takes every character up to the next ')', quotes and commas too
PatternOpen == <<Quote>> \o FormattedFloatOpen

FirstIn(S) == CHOOSE i \in S : \A j \in S : i <= j

ClosingParen(s, i) ==
    LET S == {j \in (i + Len(PatternOpen))..Len(s) : s[j] = ")"}
    IN IF S = {} THEN 0 ELSE FirstIn(S)

MatchEndAt(s, i, j) ==
    IF j > i + Len(PatternOpen) /\ j < Len(s) /\ s[j + 1] = Quote THEN j + 1 ELSE 0

MatchEnd(s, i) ==
    IF i + Len(PatternOpen) - 1 <= Len(s)
       /\ SubSeq(s, i, i + Len(PatternOpen) - 1) = PatternOpen
    THEN MatchEndAt(s, i, ClosingParen(s, i))
    ELSE 0

\* re.sub(pattern, r'\1', json_str) from position p on: the leftmost match is
\* replaced by its group and the search goes on behind it
RECURSIVE SubFrom(_, _)
SubMatch(s, p, i) ==
    SubSeq(s, p, i - 1)
    \o SubSeq(s, i + Len(PatternOpen), MatchEnd(s, i) - 2)
    \o SubFrom(s, MatchEnd(s, i) + 1)

SubMatches(s, p, S) ==
    IF S = {} THEN SubSeq(s, p, Len(s)) ELSE SubMatch(s, p, FirstIn(S))

SubFrom(s, p) == SubMatches(s, p, {i \in p..Len(s) : MatchEnd(s, i) # 0})

ApplyFormatting(json_str) == SubFrom(json_str, 1)

\* a JSON number: -?(0|[1-9]\d*)(\.\d+)?([eE][-+]?\d+)?
AllDigitChars(cs) == cs # <<>> /\ \A i \in 1..Len(cs) : IsDigitChar(cs[i])

JsonInteger(cs) == AllDigitChars(cs) /\ (Len(cs) = 1 \/ cs[1] # "0")

JsonExponent(cs) ==
    IF cs # <<>> /\ cs[1] \in {"-", "+"} THEN AllDigitChars(Tail(cs)) ELSE AllDigitChars(cs)

JsonFraction(cs) ==
    LET dot == IndexOf(cs, ".")
    IN IF dot = 0 THEN JsonInteger(cs)
       ELSE JsonInteger(SubSeq(cs, 1, dot - 1)) /\ AllDigitChars(SubSeq(cs, dot + 1, Len(cs)))

JsonUnsigned(cs) ==
    LET epos == IF IndexOf(cs, "e") # 0 THEN IndexOf(cs, "e") ELSE IndexOf(cs, "E")
    IN IF epos = 0 THEN JsonFraction(cs)
       ELSE JsonFraction(SubSeq(cs, 1, epos - 1)) /\ JsonExponent(SubSeq(cs, epos + 1, Len(cs)))

IsJsonNumber(cs) ==
    IF cs # <<>> /\ cs[1] = "-" THEN JsonUnsigned(Tail(cs)) ELSE JsonUnsigned(cs)

\* the text of a JSON string read back
RECURSIVE JsonUnescape(_)
JsonUnescape(cs) ==
    IF cs = <<>> THEN <<>>
    ELSE IF Head(cs) = Backslash /\ Len(cs) > 1
    THEN <<cs[2]>> \o JsonUnescape(Tail(Tail(cs)))
    ELSE <<Head(cs)>> \o JsonUnescape(Tail(cs))

\* the quote at j closes a string when an even number of backslashes stands
\* before it
Escaped(s, j) ==
    LET S == {k \in 0..(j - 1) : k = 0 \/ s[k] # Backslash}
        last == CHOOSE k \in S : \A m \in S : m <= k
    IN (j - 1 - last) % 2 = 1

JSONDecodeError == [status |-> "JSONDecodeError"]

\* json.loads of the text of a list from position p on, acc the values read
RECURSIVE LoadsFrom(_, _, _)
LoadsAfter(s, q, acc) ==
    IF q = Len(s) /\ s[q] = "]" THEN [status |-> "ok", values |-> acc]
    ELSE IF q + 2 <= Len(s) /\ s[q] = "," /\ s[q + 1] = " " THEN LoadsFrom(s, q + 2, acc)
    ELSE JSONDecodeError

LoadsString(s, p, S, acc) ==
    IF S = {} THEN JSONDecodeError
    ELSE LoadsAfter(s, FirstIn(S) + 1,
                    Append(acc, [kind |-> "str",
                                 text |-> JsonUnescape(SubSeq(s, p + 1, FirstIn(S) - 1))]))

LoadsNumber(s, p, S, acc) ==
    IF S = {} \/ ~IsJsonNumber(SubSeq(s, p, FirstIn(S) - 1)) THEN JSONDecodeError
    ELSE LoadsAfter(s, FirstIn(S),
                    Append(acc, [kind |-> "float",
                                 val |-> ParseFloat(SubSeq(s, p, FirstIn(S) - 1))]))

LoadsFrom(s, p, acc) ==
    IF p > Len(s) THEN JSONDecodeError
    ELSE IF s[p] = Quote
    THEN LoadsString(s, p, {j \in (p + 1)..Len(s) : s[j] = Quote /\ ~Escaped(s, j)}, acc)
    ELSE LoadsNumber(s, p, {j \in p..Len(s) : s[j] \in {",", "]"}}, acc)

JsonLoads(s) ==
    IF Len(s) < 2 \/ s[1] # "[" THEN JSONDecodeError
    ELSE IF s = <<"[", "]">> THEN [status |-> "ok", values |-> <<>>]
    ELSE LoadsFrom(s, 2, <<>>)

\* the elements of the lists given to json.dumps: floats, FormattedFloats with
\* the texts of the tests and of round_compact, and ordinary strings
MaxItems == 2

FloatItems ==
    {[kind |-> "float", val |-> v] :
        v \in {Canon(1, <<8, 1>>, 5), Canon(1, <<1, 5>>, -1), Canon(-1, <<2>>, 0)}}

FormattedFloatItems ==
    {[kind |-> "FormattedFloat", as_str |-> t] :
        t \in {<<"8", ".", "1", "e", "6">>, <<"1", ".", "0", "0", "0">>,
               <<"3", ".", "1", "4", "e", "-", "9">>, <<"-", "0", ".", "5">>, <<"7">>,
               <<"0">>}}

StrItems ==
    {[kind |-> "str", text |-> t] :
        t \in {<<"x">>, <<"a", Quote>>, FormattedFloatRepr(<<"7">>),
               FormattedFloatRepr(<<"x">>), FormattedFloatOpen}}

EncoderItems == FloatItems \cup FormattedFloatItems \cup StrItems

InitEncoder ==
    /\ ReaderIdle
    /\ RoundIdle
    /\ IntervalIdle
    /\ SimplestIdle
    /\ SimplifyIdle
    /\ SeriesIdle
    /\ en_pc = "dumps"
    /\ en_data \in ListsUpTo(EncoderItems, MaxItems) \ {<<>>}
    /\ en_json = <<>>
    /\ en_out = <<>>
    /\ en_back = NoOutput

\* json_str = json.dumps(data, cls=FormattedFloatEncoder)
EncoderDumps ==
    /\ en_pc = "dumps"
    /\ en_json' = JsonDumps(en_data)
    /\ en_pc' = "apply_formatting"
    /\ UNCHANGED <<en_data, en_out, en_back, rc_vars, iv_vars, sf_vars, sp_vars, ts_vars, fr_vars>>

\* json_str = FormattedFloatEncoder.apply_formatting(json_str)
EncoderApplyFormatting ==
    /\ en_pc = "apply_formatting"
    /\ en_out' = ApplyFormatting(en_json)
    /\ en_pc' = "loads"
    /\ UNCHANGED <<en_data, en_json, en_back, rc_vars, iv_vars, sf_vars, sp_vars, ts_vars, fr_vars>>

\* json.loads(json_str)
EncoderLoads ==
    /\ en_pc = "loads"
    /\ en_back' = JsonLoads(en_out)
    /\ en_pc' = IF en_back'.status = "ok" THEN "return" ELSE en_back'.status
    /\ UNCHANGED <<en_data, en_json, en_out, rc_vars, iv_vars, sf_vars, sp_vars, ts_vars, fr_vars>>

NextEncoder == EncoderDumps \/ EncoderApplyFormatting \/ EncoderLoads

SpecEncoder == InitEncoder /\ [][NextEncoder]_vars

(***************************************************************************)
(* FixedLengthReader: src/fixed_length_reader.py                           *)
(***************************************************************************)
\* str.lower() on the letters a format string is written with
UpperLetters == <<"I", "F", "S", "X", "D", "E">>

LowerLetters == <<"i", "f", "s", "x", "d", "e">>

LowerChar(c) ==
    IF \E k \in 1..Len(UpperLetters) : UpperLetters[k] = c
    THEN LowerLetters[CHOOSE k \in 1..Len(UpperLetters) : UpperLetters[k] = c]
    ELSE c

RECURSIVE Lower(_)
Lower(s) == IF s = <<>> THEN <<>> ELSE <<LowerChar(Head(s))>> \o Lower(Tail(s))

\* c.isalpha() on the characters of the model
IsAlphaChar(c) ==
    \/ \E k \in 1..Len(UpperLetters) : c \in {UpperLetters[k], LowerLetters[k]}
    \/ c \in {"a", "b"}

\* format_string.split(sep=',')
RECURSIVE SplitComma(_)
SplitComma(s) ==
    IF IndexOf(s, ",") = 0 THEN <<s>>
    ELSE <<SubSeq(s, 1, IndexOf(s, ",") - 1)>>
         \o SplitComma(SubSeq(s, IndexOf(s, ",") + 1, Len(s)))

\* while i < len(part) and part[i].isdigit(): i += 1, on indexes from 1
RECURSIVE DigitRun(_, _)
DigitRun(part, i) ==
    IF i <= Len(part) /\ IsDigitChar(part[i]) THEN DigitRun(part, i + 1) ELSE i

\* while i < len(part) and part[i].isalpha(): i += 1, on indexes from 1
RECURSIVE AlphaRun(_, _)
AlphaRun(part, i) ==
    IF i <= Len(part) /\ IsAlphaChar(part[i]) THEN AlphaRun(part, i + 1) ELSE i

\* length None
NoLength == <<>>

\* { 'x': None, 'i': int, 'f': float, 's': str }[field_type]
FieldTypeOf(field_type) ==
    IF field_type = <<"x">> THEN "None"
    ELSE IF field_type = <<"i">> THEN "int"
    ELSE IF field_type = <<"f">> THEN "float"
    ELSE IF field_type = <<"s">> THEN "str"
    ELSE "KeyError"

\* the three runs of _parse_field_spec end before the indexes i1, i2 and i3
FieldSpecAt(part, i1, i2, i3) ==
    [multiplicity |-> IF i1 = 1 THEN 1 ELSE CharsToInt(SubSeq(part, 1, i1 - 1)),
     field_type   |-> FieldTypeOf(SubSeq(part, i1, i2 - 1)),
     length       |-> IF i3 = i2 THEN NoLength
                      ELSE <<CharsToInt(SubSeq(part, i2, i3 - 1))>>]

FieldSpecFrom(part, i1, i2) == FieldSpecAt(part, i1, i2, DigitRun(part, i2))

\* _parse_field_spec(part)
ParseFieldSpec(part) ==
    FieldSpecFrom(part, DigitRun(part, 1), AlphaRun(part, DigitRun(part, 1)))

\* s.strip() of the blanks
RECURSIVE LStrip(_)
LStrip(s) == IF s # <<>> /\ Head(s) = " " THEN LStrip(Tail(s)) ELSE s

RECURSIVE RStrip(_)
RStrip(s) ==
    IF s # <<>> /\ s[Len(s)] = " " THEN RStrip(SubSeq(s, 1, Len(s) - 1)) ELSE s

Strip(s) == RStrip(LStrip(s))

\* int(s) succeeds: blanks around an optional sign and decimal digits
IsIntLiteral(s) ==
    IF Strip(s) # <<>> /\ Head(Strip(s)) \in {"+", "-"}
    THEN AllDigitChars(Tail(Strip(s)))
    ELSE AllDigitChars(Strip(s))

\* int(s)
PyInt(s) == CharsToInt(Strip(s))

\* the entries appended by the loop over range(multiplicity)
RECURSIVE FieldEntries(_, _, _, _)
FieldEntries(current_index, field_type, length, multiplicity) ==
    IF multiplicity <= 0 THEN <<>>
    ELSE (IF field_type # "None"
          THEN <<[start_index |-> current_index, field_type |-> field_type,
                  length |-> length]>>
          ELSE <<>>)
         \o FieldEntries(IF length # NoLength THEN current_index + length[1]
                         ELSE current_index,
                         field_type, length, multiplicity - 1)

\* current_index after the loop over range(multiplicity)
RECURSIVE IndexAfter(_, _, _)
IndexAfter(current_index, length, multiplicity) ==
    IF multiplicity <= 0 THEN current_index
    ELSE IndexAfter(IF length # NoLength THEN current_index + length[1]
                    ELSE current_index,
                    length, multiplicity - 1)

PartRaises(error) == [status |-> error, current_index |-> 0, entries |-> <<>>]

PartAppends(current_index, field_type, length, multiplicity) ==
    [status        |-> "ok",
     current_index |-> IndexAfter(current_index, length, multiplicity),
     entries       |-> FieldEntries(current_index, field_type, length, multiplicity)]

\* the length of a field without one, from the index that follows it
ImplicitLength(total_length, current_index, spec) ==
    IF spec.multiplicity = 0 THEN PartRaises("ZeroDivisionError")
    ELSE IF total_length % spec.multiplicity # 0 THEN PartRaises("ValueError")
    ELSE PartAppends(current_index, spec.field_type,
                     <<total_length \div spec.multiplicity>>, spec.multiplicity)

\* the body of the loop of _parse_format_string after _parse_field_spec;
\* part_index counts from 0
FieldPart(parts, part_index, current_index, spec) ==
    IF spec.field_type = "KeyError" THEN PartRaises("KeyError")
    ELSE IF spec.length = NoLength /\ part_index + 1 < Len(parts)
    THEN IF IsIntLiteral(parts[part_index + 2])
         THEN ImplicitLength(PyInt(parts[part_index + 2]) - current_index,
                             current_index, spec)
         ELSE PartRaises("ValueError")
    ELSE PartAppends(current_index, spec.field_type, spec.length, spec.multiplicity)

\* one iteration of the loop of _parse_format_string
ParsePart(parts, part_index, current_index) ==
    IF AllDigitChars(parts[part_index + 1])
    THEN [status |-> "ok", current_index |-> CharsToInt(parts[part_index + 1]),
          entries |-> <<>>]
    ELSE FieldPart(parts, part_index, current_index,
                   ParseFieldSpec(parts[part_index + 1]))

\* line[start:stop] for start >= 0
PySlice(line, start, stop) ==
    SubSeq(line, start + 1,
           IF stop < 0 THEN Max(Len(line) + stop, 0)
           ELSE IF stop > Len(line) THEN Len(line) ELSE stop)

\* substring = line[start_index : start_index+length], or line[start_index:]
Substring(line, entry) ==
    IF entry.length # NoLength
    THEN PySlice(line, entry.start_index, entry.start_index + entry.length[1])
    ELSE PySlice(line, entry.start_index, Len(line))

\* .replace('d', 'e').replace('D', 'e')
RECURSIVE ReplaceD(_)
ReplaceD(s) ==
    IF s = <<>> THEN <<>>
    ELSE <<IF Head(s) \in {"d", "D"} THEN "e" ELSE Head(s)>> \o ReplaceD(Tail(s))

\* the literal s from index i on: digits, an optional point with digits, an
\* optional exponent; i1 ends the integer digits and i2 the fraction
FloatLiteralAt(s, i, i1, i2) ==
    /\ i2 - i > (IF i2 > i1 THEN 1 ELSE 0)
    /\ \/ i2 > Len(s)
       \/ /\ s[i2] \in {"e", "E"}
          /\ SubSeq(s, i2 + 1, Len(s)) # <<>>
          /\ s[i2 + 1] # " "
          /\ IsIntLiteral(SubSeq(s, i2 + 1, Len(s)))

FloatLiteralFrom(s, i, i1) ==
    FloatLiteralAt(s, i, i1,
                   IF i1 <= Len(s) /\ s[i1] = "." THEN DigitRun(s, i1 + 1) ELSE i1)

\* float(s) succeeds, for s without blanks around it
IsFloatLiteral(s) ==
    IF s # <<>> /\ Head(s) \in {"+", "-"}
    THEN FloatLiteralFrom(s, 2, DigitRun(s, 2))
    ELSE FloatLiteralFrom(s, 1, DigitRun(s, 1))

\* float(s)
PyFloat(s) == ParseFloat(Lower(IF Head(s) = "+" THEN Tail(s) ELSE s))

ReadRaises(error) == [status |-> error, field_type |-> "None", value |-> <<>>]

\* the value appended for one entry of format_list, with strip_strings=True
ReadValue(field_type, substring) ==
    IF field_type = "str"
    THEN [status |-> "ok", field_type |-> "str", value |-> Strip(substring)]
    ELSE IF field_type = "float"
    THEN IF IsFloatLiteral(ReplaceD(Strip(substring)))
         THEN [status |-> "ok", field_type |-> "float",
               value |-> PyFloat(ReplaceD(Strip(substring)))]
         ELSE ReadRaises("ValueError")
    ELSE IF IsIntLiteral(substring)
         THEN [status |-> "ok", field_type |-> "int", value |-> PyInt(substring)]
         ELSE ReadRaises("ValueError")

\* format strings of at most MaxParts parts
MaxParts == 3

FormatParts ==
    {<<"2">>, <<"i">>, <<"2", "i", "1">>, <<"x", "1">>, <<"2", "s">>,
     <<"S", "2">>, <<"f">>}

RECURSIVE JoinComma(_)
JoinComma(parts) ==
    IF Len(parts) = 1 THEN parts[1]
    ELSE parts[1] \o <<",">> \o JoinComma(Tail(parts))

FormatStrings == {JoinComma(parts) : parts \in ListsUpTo(FormatParts, MaxParts) \ {<<>>}}

\* the lines read: '12 3ab4.5d1 ' and '12 3'
Lines ==
    {<<"1", "2", " ", "3", "a", "b", "4", ".", "5", "d", "1", " ">>,
     <<"1", "2", " ", "3">>}

\* the format string of the usage example: '3,i1,i1,10,12i3,x1,2f18,2f14,f20'
ExampleFormat ==
    <<"3", ",", "i", "1", ",", "i", "1", ",", "1", "0", ",", "1", "2", "i",
      "3", ",", "x", "1", ",", "2", "f", "1", "8", ",", "2", "f", "1", "4",
      ",", "f", "2", "0">>

\* the line of _test
ExampleLine ==
    <<" ", "1", "9", "3", "2", " ", " ", " ", "1", "4", " ", " ", "0", " ",
      " ", "0", " ", " ", "1", " ", " ", "0", " ", "-", "1", " ", " ", "0",
      " ", " ", "0", " ", " ", "0", " ", " ", "0", " ", " ", "0", " ", " ",
      "0", " ", " ", "0", " ", "-", "0", ".", "0", "0", "0", "0", "0", "1",
      "0", "4", "3", "5", "2", " ", " ", " ", " ", " ", "0", ".", "0", "0",
      "0", "0", "0", "6", "7", "6", "4", "1", "4", " ", " ", " ", " ", " ",
      "0", ".", "0", "0", "0", "0", "0", "6", "8", "4", "4", "1", "6", " ",
      "1", ".", "3", "0", "6", "9", "9", "0", "2", "1", "2", "2", "7", " ",
      " ", " ", " ", "5", "7", "5", "3", ".", "3", "8", "4", "8", "8", "4",
      "8", "9", "6", "8", "0", " ">>

InitReader ==
    /\ RoundIdle
    /\ IntervalIdle
    /\ SimplestIdle
    /\ SimplifyIdle
    /\ SeriesIdle
    /\ EncoderIdle
    /\ fr_pc = "init"
    /\ \/ fr_format_string \in FormatStrings /\ fr_line \in Lines
       \/ fr_format_string = ExampleFormat /\ fr_line = ExampleLine
    /\ fr_parts = <<>>
    /\ fr_part_index = 0
    /\ fr_current_index = 0
    /\ fr_format_list = <<>>
    /\ fr_origin = <<>>
    /\ fr_result = <<>>

\* FixedLengthReader(format_string) up to the loop of _parse_format_string
ReaderInit ==
    /\ fr_pc = "init"
    /\ fr_parts' = SplitComma(Lower(fr_format_string))
    /\ fr_part_index' = 0
    /\ fr_current_index' = 0
    /\ fr_format_list' = <<>>
    /\ fr_origin' = <<>>
    /\ fr_pc' = "part"
    /\ UNCHANGED <<fr_format_string, fr_line, fr_result, rc_vars, iv_vars, sf_vars,
                   sp_vars, ts_vars, en_vars>>

\* origin with n more entries made from the part at part_index
RECURSIVE OriginsAppended(_, _, _)
OriginsAppended(origin, part_index, n) ==
    IF n = 0 THEN origin
    ELSE OriginsAppended(Append(origin, part_index), part_index, n - 1)

PartTaken(r) ==
    /\ fr_pc' = IF r.status = "ok" THEN "part" ELSE r.status
    /\ fr_current_index' = IF r.status = "ok" THEN r.current_index ELSE fr_current_index
    /\ fr_format_list' = fr_format_list \o r.entries
    /\ fr_origin' = OriginsAppended(fr_origin, fr_part_index, Len(r.entries))
    /\ fr_part_index' = IF r.status = "ok" THEN fr_part_index + 1 ELSE fr_part_index

\* one part of the format string
ReaderPart ==
    /\ fr_pc = "part"
    /\ fr_part_index < Len(fr_parts)
    /\ PartTaken(ParsePart(fr_parts, fr_part_index, fr_current_index))
    /\ UNCHANGED <<fr_format_string, fr_parts, fr_line, fr_result, rc_vars, iv_vars,
                   sf_vars, sp_vars, ts_vars, en_vars>>

\* _parse_format_string returns format_list, and read(line) starts
ReaderRead ==
    /\ fr_pc = "part"
    /\ fr_part_index = Len(fr_parts)
    /\ fr_result' = <<>>
    /\ fr_pc' = "read"
    /\ UNCHANGED <<fr_format_string, fr_parts, fr_part_index, fr_current_index,
                   fr_format_list, fr_origin, fr_line, rc_vars, iv_vars, sf_vars,
                   sp_vars, ts_vars, en_vars>>

EntryTaken(r) ==
    /\ fr_pc' = IF r.status = "ok" THEN "read" ELSE r.status
    /\ fr_result' = IF r.status = "ok"
                    THEN Append(fr_result, [field_type |-> r.field_type, value |-> r.value])
                    ELSE fr_result

\* one entry of format_list in read
ReaderEntry ==
    /\ fr_pc = "read"
    /\ Len(fr_result) < Len(fr_format_list)
    /\ EntryTaken(ReadValue(fr_format_list[Len(fr_result) + 1].field_type,
                            Substring(fr_line, fr_format_list[Len(fr_result) + 1])))
    /\ UNCHANGED <<fr_format_string, fr_parts, fr_part_index, fr_current_index,
                   fr_format_list, fr_origin, fr_line, rc_vars, iv_vars, sf_vars,
                   sp_vars, ts_vars, en_vars>>

\* return result
ReaderReturn ==
    /\ fr_pc = "read"
    /\ Len(fr_result) = Len(fr_format_list)
    /\ fr_pc' = "return"
    /\ UNCHANGED <<fr_format_string, fr_parts, fr_part_index, fr_current_index,
                   fr_format_list, fr_origin, fr_line, fr_result, rc_vars, iv_vars,
                   sf_vars, sp_vars, ts_vars, en_vars>>

NextReader == ReaderInit \/ ReaderPart \/ ReaderRead \/ ReaderEntry \/ ReaderReturn

SpecReader == InitReader /\ [][NextReader]_vars

(***************************************************************************)
(* The whole model                                                         *)
(***************************************************************************)
Init ==
    \/ InitRound
    \/ InitTest
    \/ InitInterval
    \/ InitWiden
    \/ InitSimplest
    \/ InitSimplify
    \/ InitSeries
    \/ InitEncoder
    \/ InitReader

Next ==
    \/ NextRound
    \/ NextTest
    \/ NextInterval
    \/ NextWiden
    \/ NextSimplest
    \/ NextSimplify
    \/ NextSeries
    \/ NextEncoder
    \/ NextReader

Spec == Init /\ [][Next]_vars

(***************************************************************************)
(* Properties of round_compact_in_interval                                 *)
(***************************************************************************)
\* round_compact(iv_x, n) for n = 0..k, the rounding to n digits at index n + 1
RECURSIVE IvRoundings(_)
IvRoundings(k) ==
    IF k < 0 THEN <<>> ELSE Append(IvRoundings(k - 1), RoundCompact(iv_x, k).str)

IvInside(s) == ValLeq(iv_a, ParseFloat(s)) /\ ValLeq(ParseFloat(s), iv_b)

\* the numbers of digits whose rounding, listed in rounds, has its value in [a, b]
IvInsideSigFigs(rounds) == {n \in 0..MaxSigFigs : IvInside(rounds[n + 1])}

\* C1: for a <= x <= b the candidate held in best_found lies inside [a, b]
\* before the loop and after every iteration, so the value returned by
\* round_compact_in_interval lies inside [a, b].
C1_ResultInInterval ==
    (iv_pc \in {"loop", "return"}) =>
        /\ ValLeq(iv_a, iv_x) /\ ValLeq(iv_x, iv_b)
        /\ IvInside(iv_best_found)

\* the call returns a rounding that differs from x
C1_Witness ==
    /\ iv_pc = "return"
    /\ ParseFloat(iv_best_found) # iv_x

\* C9 as stated: among the roundings of x to 0..17 significant digits whose
\* value lies in [a, b], the returned value is the one with the fewest
\* significant digits.
C9_FewestDigits ==
    (iv_pc = "return") =>
        LET rounds == IvRoundings(MaxSigFigs)
            inside == IvInsideSigFigs(rounds)
            fewest == CHOOSE n \in inside : \A m \in inside : n <= m
        IN ParseFloat(iv_best_found) = ParseFloat(rounds[fewest + 1])

\* C9 amended: a rounding counts only if its string is shorter than str(x) and
\* than every rounding to more digits that lies in [a, b]; the result is the
\* rounding with the fewest significant digits among those, and str(x) when
\* there is none.
C9_FewestDigitsAmongShorter ==
    (iv_pc = "return") =>
        LET rounds  == IvRoundings(MaxSigFigs)
            inside  == IvInsideSigFigs(rounds)
            shorter == {n \in inside :
                           /\ Len(rounds[n + 1]) < Len(StrFloat(iv_x))
                           /\ \A m \in inside :
                                 m > n => Len(rounds[n + 1]) < Len(rounds[m + 1])}
        IN IF shorter = {} THEN iv_best_found = StrFloat(iv_x)
           ELSE iv_best_found =
                    rounds[(CHOOSE n \in shorter : \A m \in shorter : n <= m) + 1]

\* the result is a rounding shorter than str(x), and a rounding to fewer
\* digits lies in [a, b] too but is not shorter (55 in [40, 400] becomes "55"
\* and not "60")
C9_Witness ==
    /\ iv_pc = "return"
    /\ iv_best_found # StrFloat(iv_x)
    /\ LET rounds == IvRoundings(MaxSigFigs)
           inside == IvInsideSigFigs(rounds)
       IN \E n \in inside :
             /\ n > 0
             /\ \A m \in inside : m > 0 => n <= m
             /\ ParseFloat(rounds[n + 1]) # ParseFloat(iv_best_found)
             /\ Len(rounds[n + 1]) >= Len(iv_best_found)

\* C10: the string returned is a shortest one among str(x) and the
\* round_compact(x, n), n in 0..17, whose value lies in [a, b]; if several
\* candidates have this minimal length the result is str(x) when str(x) is one
\* of them and otherwise the rounding to the most digits.
C10_ShortestString ==
    (iv_pc = "return") =>
        LET rounds  == IvRoundings(MaxSigFigs)
            inside  == IvInsideSigFigs(rounds)
            minimal == {n \in inside : Len(rounds[n + 1]) = Len(iv_best_found)}
        IN /\ \A n \in inside : Len(iv_best_found) <= Len(rounds[n + 1])
           /\ Len(iv_best_found) <= Len(StrFloat(iv_x))
           /\ IF Len(StrFloat(iv_x)) = Len(iv_best_found)
              THEN iv_best_found = StrFloat(iv_x)
              ELSE /\ minimal # {}
                   /\ iv_best_found =
                          rounds[(CHOOSE n \in minimal : \A m \in minimal : n >= m) + 1]

\* two different in-interval roundings share the minimal length
C10_Witness ==
    /\ iv_pc = "return"
    /\ LET rounds  == IvRoundings(MaxSigFigs)
           inside  == IvInsideSigFigs(rounds)
           minimal == {n \in inside : Len(rounds[n + 1]) = Len(iv_best_found)}
       IN \E n, m \in minimal : rounds[n + 1] # rounds[m + 1]

(***************************************************************************)
(* Properties of simplify                                                  *)
(***************************************************************************)
(* Claims about simplify                                                   *)
(***************************************************************************)
\* T_MAX and max_error_per_char of a call with arguments args
SimplifyTMax(args) ==
    IF args.fn = "mpp02" THEN T_MAX ELSE ERROR_CONFIGS(args.body_name).t_max

SimplifyBudget(args) ==
    IF args.fn = "mpp02" THEN MAX_ERROR_PER_CHAR(args.size)
    ELSE Vsop87aMaxErrorPerChar(args.body_name, args.size)

\* C6: dropping is monotone in the budget: when a call of simplify dropped a
\* term (returned only ZERO literals) under max_error_per_char m1, a call for
\* the same term, alpha, coordinate and T_MAX under a larger budget m2 > m1
\* drops it too.
C6_DropMonotone ==
    (/\ sp_pc = "return"
     /\ sp_prev # NoOutput
     /\ SimplifyTMax(sp_prev.args) = SimplifyTMax(sp_args)
     /\ ValLess(SimplifyBudget(sp_prev.args), SimplifyBudget(sp_args))
     /\ sp_prev.out = ZeroTerm(Len(sp_args.coeffs)))
        => sp_out = ZeroTerm(Len(sp_args.coeffs))

\* C7: a term whose amplitude is exactly zero comes back as the all-zero
\* representation, every coefficient the literal '0', whatever the other
\* coefficients, alpha, the coordinate and the (positive) budget are.
C7_ZeroAmplitude ==
    (sp_pc = "return" /\ sp_args.coeffs[1] = ZeroVal) =>
        /\ Len(sp_out) = Len(sp_args.coeffs)
        /\ \A k \in 1..Len(sp_out) : sp_out[k] = <<"0">>

\* a lunar call with zero amplitude and other coefficients that are not zero
\* has returned
C7_Witness ==
    /\ sp_pc = "return"
    /\ sp_args.fn = "mpp02"
    /\ sp_args.coeffs[1] = ZeroVal
    /\ \E k \in 2..6 : sp_args.coeffs[k] # ZeroVal
    /\ ValLess(ZeroVal, sp_max_error_per_char)
    /\ Len(sp_out) = 6

(***************************************************************************)
(* Claims about truncate_series                                            *)
(***************************************************************************)
\* the coefficients of a term: the rows of reshape(-1, 6) and reshape(-1, 3)
SeriesWidth == IF ts_obj_raw.fn = "mpp02" THEN 6 ELSE 3

\* the lists that simplify returned for the terms of group g with an amplitude
\* that is not zero, one after the other, among the first k calls
RECURSIVE SurvivingCoeffs(_, _)
SurvivingCoeffs(g, k) ==
    IF k = 0 THEN <<>>
    ELSE SurvivingCoeffs(g, k - 1)
            \o (IF ts_simplified[k].g = g /\ ParseFloat(ts_simplified[k].c_new[1]) # ZeroVal
                THEN ts_simplified[k].c_new
                ELSE <<>>)

\* the first g groups of obj_raw that are not of EARTH and have such terms, with
\* these terms
RECURSIVE SurvivingGroups(_)
SurvivingGroups(g) ==
    IF g = 0 THEN <<>>
    ELSE SurvivingGroups(g - 1)
            \o (IF /\ ts_obj_raw.groups[g].body_name # "EARTH"
                   /\ SurvivingCoeffs(g, Len(ts_simplified)) # <<>>
                THEN <<[body_name |-> ts_obj_raw.groups[g].body_name,
                        coord |-> ts_obj_raw.groups[g].coord,
                        alpha |-> ts_obj_raw.groups[g].alpha,
                        coeffs |-> SurvivingCoeffs(g, Len(ts_simplified))]>>
                ELSE <<>>)

\* group g of obj_raw is a group of the returned series
SeriesKept(g) ==
    \E i \in 1..Len(ts_out.groups) :
        /\ ts_out.groups[i].body_name = ts_obj_raw.groups[g].body_name
        /\ ts_out.groups[i].coord = ts_obj_raw.groups[g].coord
        /\ ts_out.groups[i].alpha = ts_obj_raw.groups[g].alpha

\* C8: in the series that truncate_series returns every group has at least one
\* term and every term has an amplitude that is not zero: the groups are those
\* of the input, in order, with the terms for which simplify returned a
\* non-zero amplitude, all coefficients of the other terms are left out, and a
\* group without such a term is not there.
C8_SurvivingTerms ==
    ts_pc = "return" =>
        /\ \A i \in 1..Len(ts_out.groups) :
              /\ Len(ts_out.groups[i].coeffs) >= SeriesWidth
              /\ Len(ts_out.groups[i].coeffs) % SeriesWidth = 0
              /\ \A j \in 0..(Len(ts_out.groups[i].coeffs) \div SeriesWidth - 1) :
                    ParseFloat(ts_out.groups[i].coeffs[j * SeriesWidth + 1]) # ZeroVal
        /\ ts_out.groups = SurvivingGroups(Len(ts_obj_raw.groups))

\* a series has been returned in which a group has lost a term and kept
\* another, and a group that had terms is omitted
C8_Witness ==
    /\ ts_pc = "return"
    /\ \E k \in 1..Len(ts_simplified) :
          /\ ParseFloat(ts_simplified[k].c_new[1]) = ZeroVal
          /\ SeriesKept(ts_simplified[k].g)
    /\ \E g \in 1..Len(ts_obj_raw.groups) :
          /\ ts_obj_raw.groups[g].body_name # "EARTH"
          /\ Len(ts_obj_raw.groups[g].coeffs) > 0
          /\ ~SeriesKept(g)

(***************************************************************************)
(* Further claims about round_compact_in_interval                          *)
(***************************************************************************)
\* C11: for a <= x <= b, whenever x == 0 or 0 lies in [a, b], the value that
\* round_compact_in_interval returns is exact zero.
C11_ZeroWhenZeroInside ==
    (/\ iv_pc = "return"
     /\ \/ iv_x = ZeroVal
        \/ ValLeq(iv_a, ZeroVal) /\ ValLeq(ZeroVal, iv_b))
        => ParseFloat(iv_best_found) = ZeroVal

(***************************************************************************)
(* Claims about simplest_float_in                                          *)
(***************************************************************************)
\* the least number of significant digits of a number of [lo, hi], 0 < lo <= hi:
\* the least n for which lo rounded up to n digits is at most hi
FewestDigits(lo, hi) ==
    CHOOSE n \in 1..Len(lo.digits) :
        /\ ValLeq(CeilTo(lo, DecPt(lo) - n), hi)
        /\ \A m \in 1..(n - 1) : ~ValLeq(CeilTo(lo, DecPt(lo) - m), hi)

\* the numbers of n significant digits next to x > 0, below and above
NextWithDigits(x, n) == {FloorTo(x, DecPt(x) - n), CeilTo(x, DecPt(x) - n)}

\* the result r of simplest_float_in(x, a, b), 0 < a <= x <= b, lies in [a, b]
SimplestInside(r, x, a, b) == InInterval(r, a, b)

\* ... and no number of [a, b] has fewer significant digits
SimplestFewest(r, x, a, b) == Len(r.digits) = FewestDigits(a, b)

\* ... and no number of [a, b] with as few digits is closer to x
SimplestClosest(r, x, a, b) ==
    \A c \in NextWithDigits(x, FewestDigits(a, b)) :
        (InInterval(c, a, b) /\ Len(c.digits) = FewestDigits(a, b))
            => ValLeq(AbsVal(SubVal(x, r)), AbsVal(SubVal(x, c)))

\* C12: for a <= x <= b, simplest_float_in(x, a, b) returns a number of [a, b]
\* that has the least number of significant digits among all numbers of the
\* interval, and among those with that number of digits the one closest to x
\* (an interval below zero is read through its mirror image; zero, when it is
\* in the interval, is the number with the fewest digits).
C12_SimplestFloatIn ==
    (sf_pc = "return" /\ ValLeq(sf_a, sf_x) /\ ValLeq(sf_x, sf_b)) =>
        IF InInterval(ZeroVal, sf_a, sf_b) THEN sf_out.ret = ZeroVal
        ELSE LET neg == ValLess(sf_b, ZeroVal)
                 r   == IF neg THEN NegVal(sf_out.ret) ELSE sf_out.ret
                 x   == IF neg THEN NegVal(sf_x) ELSE sf_x
                 a   == IF neg THEN NegVal(sf_b) ELSE sf_a
                 b   == IF neg THEN NegVal(sf_a) ELSE sf_b
             IN /\ SimplestInside(r, x, a, b)
                /\ SimplestFewest(r, x, a, b)
                /\ SimplestClosest(r, x, a, b)

(***************************************************************************)
(* Claims about round_compact_in_interval on nested intervals              *)
(***************************************************************************)
\* the number of significant digits of the value of the literal s, none for zero
SigDigitsOf(s) == Len(ParseFloat(s).digits)

\* the call on [a, b] that has returned follows a call for the same x on an
\* interval inside [a, b]
WidenedReturn ==
    /\ iv_pc = "return"
    /\ iv_prev # NoOutput

C14_FailFast ==
    /\ (iv_pc \notin {"idle", "call"} /\ (ValLess(iv_x, iv_a) \/ ValLess(iv_b, iv_x))) =>
          /\ iv_pc = "ValueError"
          /\ iv_best_found = <<>>
          /\ iv_sig_figs = 0
    /\ iv_pc = "ValueError" => (ValLess(iv_x, iv_a) \/ ValLess(iv_b, iv_x))
    /\ (CompactDone /\ rc_sig_figs < 0) =>
          /\ rc_out.ret.status = "ValueError"
          /\ rc_out.ret.str = <<>>
          /\ rc_out.ret.x_rounded_1 = <<>>
          /\ rc_out.ret.x_rounded_2 = <<>>
    /\ (CompactDone /\ rc_out.ret.status = "ValueError") => rc_sig_figs < 0

\* a call with x below a has raised ValueError
C14_Witness ==
    /\ iv_pc = "ValueError"
    /\ ValLess(iv_x, iv_a)
    /\ ValLeq(iv_x, iv_b)


(***************************************************************************)
(* C15                                                                     *)
(***************************************************************************)
\* the call of truncate_series is over: it has returned or an exception has
\* left it
SeriesEnded == ts_pc \in Exceptions \cup {"return"}

\* C15: a failure of simplify on one term does not abort the compaction of the
\* other terms: a call of truncate_series that is over has gone through every
\* group and has returned a series
C15_FailureIsolated ==
    SeriesEnded =>
        /\ ts_pc = "return"
        /\ ts_g > Len(ts_obj_raw.groups)
        /\ ts_out # NoOutput


(***************************************************************************)
(* C16                                                                     *)
(***************************************************************************)
\* round_compact has returned a string for a zero x or for no digits at all
ZeroReturned == CompactDone /\ rc_sig_figs >= 0 /\ (rc_x = ZeroVal \/ rc_sig_figs = 0)

TestDone == rc_out.fn = "_test_round_compact"

\* C17: rounding to 17 significant digits does not change the number: for the
\* double x, round_compact(x, 17) returns a string and float of it is x
C17_RoundTrip17 ==
    TestDone =>
        /\ rc_out.round17.status = "ok"
        /\ ReadsAs(rc_out.round17.str, rc_x)
        /\ rc_pc = "test"

\* x has more than 17 digits, the string has another value than x and the
\* rounding went up
C17_Witness ==
    /\ TestDone
    /\ Len(rc_x.digits) > RoundTripSigFigs
    /\ ParseFloat(rc_out.round17.str) # rc_x
    /\ ValLess(AbsVal(rc_x), AbsVal(ParseFloat(rc_out.round17.str)))


(***************************************************************************)
(* C18                                                                     *)
(***************************************************************************)
\* the amplitude of the lunar term is negligible:
\* normalization * T_MAX^alpha * |amplitude| < 12 * max_error_per_char
NegligibleAmplitude ==
    /\ sp_args.fn = "mpp02"
    /\ ValLess(MulVal(MulVal(COORD_NORMALIZATION(sp_args.coord), PowVal(T_MAX, sp_args.alpha)),
                      AbsVal(sp_args.coeffs[1])),
               MulVal(NatVal(12), MAX_ERROR_PER_CHAR(sp_args.size)))

\* C18: a lunar term of negligible amplitude is dropped whatever its other
\* coefficients are: simplify returns six ZERO literals
C18_NegligibleDropped ==
    (sp_pc = "return" /\ NegligibleAmplitude) =>
        /\ sp_out = <<ZERO, ZERO, ZERO, ZERO, ZERO, ZERO>>
        /\ 6 + SumLen(sp_coeffs_truncated) >= 12

\* a term with a negligible amplitude that the digit search has left with a
\* non-zero amplitude string has been dropped
C18_Witness ==
    /\ sp_pc = "return"
    /\ NegligibleAmplitude
    /\ ParseFloat(sp_coeffs_truncated[1]) # ZeroVal
    /\ sp_out = <<ZERO, ZERO, ZERO, ZERO, ZERO, ZERO>>


(***************************************************************************)
(* C19                                                                     *)
(***************************************************************************)
\* the global entries of a series
SeriesGlobals(obj) ==
    IF "W" \in DOMAIN obj
    THEN <<"W", obj.W, "PC", obj.PC, "QC", obj.QC>>
    ELSE IF "matrix" \in DOMAIN obj THEN <<"matrix", obj.matrix>>
    ELSE <<>>

\* C19: no step of truncate_series changes obj_raw, and the global entries of
\* the series returned (W, PC, QC; matrix) are those of obj_raw
C19_InputKept ==
    [][/\ ts_obj_raw' = ts_obj_raw
       /\ ts_pc' = "return" =>
              /\ SeriesGlobals(ts_obj_raw') # <<>>
              /\ SeriesGlobals(ts_out') = SeriesGlobals(ts_obj_raw')]_vars

\* a series has been returned with fewer groups than obj_raw has and with the
\* global entries of obj_raw
C19_Witness ==
    /\ ts_pc = "return"
    /\ ts_out.groups # <<>>
    /\ Len(ts_out.groups) < Len(ts_obj_raw.groups)
    /\ SeriesGlobals(ts_out) = SeriesGlobals(ts_obj_raw)
    /\ SeriesGlobals(ts_out) # <<>>


(***************************************************************************)
(* C20                                                                     *)
(***************************************************************************)
\* the calls of simplify so far that were made for term t of group g
CallsFor(g, t) ==
    {k \in 1..Len(ts_simplified) : ts_simplified[k].g = g /\ ts_simplified[k].t = t}

\* the identity of a group: the body it is listed under, coord and alpha
GroupIdentity(group) == <<group.body_name, group.coord, group.alpha>>

\* no two groups of the list have one identity
DistinctIdentities(groups) ==
    \A i, j \in 1..Len(groups) :
        GroupIdentity(groups[i]) = GroupIdentity(groups[j]) => i = j

\* the term that call k of simplify was made for
TermOfCall(k) == ts_obj_raw.groups[ts_simplified[k].g].coeffs[ts_simplified[k].t]

\* C20: the groups are reassembled term by term and in the order of the input:
\* simplify is called once for every term of every group that is not of EARTH,
\* in input order; the groups returned are the input groups with a surviving
\* term, in input order, with their identity and their surviving terms in
\* input order; equal terms of groups of one identity have equal compacted
\* forms; and the groups returned have distinct identities if the input groups
\* have
C20_Reassembly ==
    ts_pc = "return" =>
        /\ \A g \in 1..Len(ts_obj_raw.groups) :
              \A t \in 1..Len(ts_obj_raw.groups[g].coeffs) :
                 Cardinality(CallsFor(g, t)) =
                    IF ts_obj_raw.groups[g].body_name = "EARTH" THEN 0 ELSE 1
        /\ \A k \in 1..(Len(ts_simplified) - 1) :
              \/ ts_simplified[k].g < ts_simplified[k + 1].g
              \/ /\ ts_simplified[k].g = ts_simplified[k + 1].g
                 /\ ts_simplified[k].t < ts_simplified[k + 1].t
        /\ ts_out.groups = SurvivingGroups(Len(ts_obj_raw.groups))
        /\ \A k1, k2 \in 1..Len(ts_simplified) :
              (/\ TermOfCall(k1) = TermOfCall(k2)
               /\ GroupIdentity(ts_obj_raw.groups[ts_simplified[k1].g])
                     = GroupIdentity(ts_obj_raw.groups[ts_simplified[k2].g]))
                 => ts_simplified[k1].c_new = ts_simplified[k2].c_new
        /\ DistinctIdentities(ts_obj_raw.groups) => DistinctIdentities(ts_out.groups)

\* two groups have been returned, the first with two surviving terms that
\* differ, and one term has been simplified twice
C20_Witness ==
    /\ ts_pc = "return"
    /\ Len(ts_out.groups) = 2
    /\ Len(ts_out.groups[1].coeffs) = 2 * SeriesWidth
    /\ ts_out.groups[1].coeffs[1] # ts_out.groups[1].coeffs[SeriesWidth + 1]
    /\ \E k1, k2 \in 1..Len(ts_simplified) : k1 # k2 /\ TermOfCall(k1) = TermOfCall(k2)

(***************************************************************************)
(* Properties of FormattedFloatEncoder                                     *)
(***************************************************************************)
\* the text that stands for an element in the formatted JSON string, and the
\* value that is read back for it
FormattedText(item) ==
    IF item.kind = "FormattedFloat" THEN item.as_str ELSE EncodeDefault(item)

FormattedValue(item) ==
    IF item.kind = "FormattedFloat"
    THEN [kind |-> "float", val |-> ParseFloat(item.as_str)]
    ELSE item

RECURSIVE FormattedTexts(_, _)
FormattedTexts(data, k) ==
    IF k > Len(data) THEN <<>>
    ELSE <<FormattedText(data[k])>> \o FormattedTexts(data, k + 1)

Formatted == en_pc \in {"loads", "return", "JSONDecodeError"}

Loaded == en_pc \in {"return", "JSONDecodeError"}

\* C21: after json.dumps with FormattedFloatEncoder and apply_formatting the
\* JSON string carries the as_str of every FormattedFloat verbatim and
\* unquoted and every float and every other string as json.dumps wrote it, and
\* json.loads reads from it the as_float of every FormattedFloat and every
\* other element unchanged
C21_FormattingVerbatim ==
    /\ Formatted =>
           en_out = <<"[">> \o JoinItems(FormattedTexts(en_data, 1), 1) \o <<"]">>
    /\ Loaded =>
           /\ en_back.status = "ok"
           /\ Len(en_back.values) = Len(en_data)
           /\ \A k \in 1..Len(en_data) : en_back.values[k] = FormattedValue(en_data[k])

(***************************************************************************)
(* Properties of the drop rule and of the digit search of simplify         *)
(***************************************************************************)
\* normalization * T_MAX^alpha of a call; for a planet the normalization by
\* the mean distance from the Sun is part of max_error_per_char
DropWeight(args) ==
    IF args.fn = "mpp02"
    THEN MulVal(COORD_NORMALIZATION(args.coord), PowVal(T_MAX, args.alpha))
    ELSE PowVal(ERROR_CONFIGS(args.body_name).t_max, args.alpha)

\* the separators of a term: six for a lunar term, three for a planetary term
Separators(args) == IF args.fn = "mpp02" THEN 6 ELSE 3

\* weight * |amplitude| / (separators + lengths) < max_error_per_char
DropCondition ==
    ValLess(MulVal(DropWeight(sp_args), AbsVal(sp_args.coeffs[1])),
            MulVal(SimplifyBudget(sp_args),
                   NatVal(Separators(sp_args) + SumLen(sp_coeffs_truncated))))

\* string s stands for a rounding of x: its value is zero or closer to x than
\* zero is
RoundingOf(s, x) ==
    \/ ParseFloat(s) = ZeroVal
    \/ ValLess(AbsVal(SubVal(x, ParseFloat(s))), AbsVal(x))

\* C22: simplify drops the term exactly when weight * |amplitude| divided by
\* the separators plus the lengths of the truncated strings is below
\* max_error_per_char; a dropped term comes back as ZERO literals only, a kept
\* term as the truncated coefficients, one per input coefficient in input order
C22_DropRule ==
    sp_pc = "return" =>
        /\ Len(sp_coeffs_truncated) = Len(sp_args.coeffs)
        /\ DropCondition => sp_out = ZeroTerm(Len(sp_args.coeffs))
        /\ ~DropCondition =>
              /\ sp_out = sp_coeffs_truncated
              /\ \A k \in 1..Len(sp_out) : RoundingOf(sp_out[k], sp_args.coeffs[k])
              /\ sp_out # ZeroTerm(Len(sp_args.coeffs))

\* a lunar term has been dropped that would have been kept if the six
\* separators were not counted
C22_Witness ==
    /\ sp_pc = "return"
    /\ sp_args.fn = "mpp02"
    /\ DropCondition
    /\ sp_out = ZeroTerm(6)
    /\ ~ValLess(MulVal(DropWeight(sp_args), AbsVal(sp_args.coeffs[1])),
                MulVal(SimplifyBudget(sp_args), NatVal(SumLen(sp_coeffs_truncated))))

\* C23: in the digit search for one coefficient, once a proposed rounding
\* that would save characters has been rejected (its error added per
\* character saved is not below max_error_per_char), no rounding to fewer
\* significant digits is accepted for that coefficient
C23_StopsAtFirstRejection ==
    [][(sp_pc = "proposal" /\ sp_rejected # {} /\ sp_x_current' # <<>>)
          => sp_x_current' = sp_x_current]_vars

\* error_multipliers[k] * |x - float(x_current)| against max_error_per_char
\* times the characters saved so far, for string current in the place of
\* coefficient k (counted from 1)
WithinBudget(k, current) ==
    LET x     == sp_args.coeffs[k]
        err   == MulVal(sp_error_multipliers[k], AbsVal(SubVal(x, ParseFloat(current))))
        saved == Len(StrFloat(x)) - Len(current)
    IN /\ saved >= 0
       /\ IF current = StrFloat(x) THEN err = ZeroVal
          ELSE ValLess(err, MulVal(sp_max_error_per_char, NatVal(saved)))

\* C24: at every point of the digit search the weighted error of x_current is
\* at most max_error_per_char times the characters saved against str(x), and
\* below it once a rounding has been accepted; the same holds for the strings
\* already appended to coeffs_truncated; x_current never gets longer and gets
\* shorter whenever a proposal is accepted
C24_ErrorBudget ==
    /\ [](/\ sp_pc = "proposal" => WithinBudget(sp_k + 1, sp_x_current)
          /\ \A k \in 1..Len(sp_coeffs_truncated) :
                WithinBudget(k, sp_coeffs_truncated[k]))
    /\ [][(sp_pc = "proposal" /\ sp_x_current' # <<>>) =>
             \/ sp_x_current' = sp_x_current
             \/ Len(sp_x_current') < Len(sp_x_current)]_vars

\* the digit search holds a rounding that is not the coefficient itself, after
\* an acceptance
C24_Witness ==
    /\ sp_pc = "proposal"
    /\ sp_x_current # StrFloat(sp_args.coeffs[sp_k + 1])
    /\ ParseFloat(sp_x_current) # sp_args.coeffs[sp_k + 1]
    /\ ParseFloat(sp_x_current) # ZeroVal

\* the weight of coefficient j of a term (j = 1 the amplitude, j = 2 the phase
\* offset, order 0, j = 3 order 1, ...): normalization * T_MAX^alpha for the
\* amplitude, and |amplitude| * normalization * T_MAX^(alpha + order) for
\* the phase polynomial, with the amplitude given to simplify
SensitivityWeight(args, j) ==
    IF j = 1 THEN DropWeight(args)
    ELSE LET norm == IF args.fn = "mpp02" THEN COORD_NORMALIZATION(args.coord)
                     ELSE NatVal(1)
         IN MulVal(AbsVal(args.coeffs[1]),
                   MulVal(norm, PowVal(SimplifyTMax(args), args.alpha + (j - 2))))

BetweenSearches == sp_pc \in {"coefficient", "drop", "return"}

\* C25: before and after the digit search of every coefficient the weights of
\* the call are the ones above, computed from the amplitude given to simplify
\* and not from its truncated string, and in the search a proposal is accepted
\* only if it is within budget under that weight
C25_SensitivityWeights ==
    /\ [](BetweenSearches =>
             /\ Len(sp_error_multipliers) >= Len(sp_args.coeffs)
             /\ \A j \in 1..Len(sp_args.coeffs) :
                   sp_error_multipliers[j] = SensitivityWeight(sp_args, j))
    /\ [][(sp_pc = "proposal" /\ sp_x_current' # <<>> /\ sp_x_current' # sp_x_current) =>
             ProposalAccepted(sp_args.coeffs[sp_k + 1], sp_x_current', sp_x_current,
                              SensitivityWeight(sp_args, sp_k + 1),
                              SimplifyBudget(sp_args))]_vars

\* the digit search of a lunar term with alpha = 1 is at a coefficient of the
\* phase polynomial of order 1 or more, and the amplitude has been truncated to
\* a string with another value
C25_Witness ==
    /\ sp_pc = "proposal"
    /\ sp_args.fn = "mpp02"
    /\ sp_args.alpha = 1
    /\ sp_k >= 2
    /\ ParseFloat(sp_coeffs_truncated[1]) # sp_args.coeffs[1]
    /\ ParseFloat(sp_coeffs_truncated[1]) # ZeroVal

(***************************************************************************)
(* Properties of the rounded components and of the strings of              *)
(* round_compact                                                           *)
(***************************************************************************)
\* rounding x to n digits carries out of the leading digit: the n kept digits
\* are all 9 and the first digit dropped is 5 or more (the last kept digit is
\* odd, so a tie goes up too)
CarriesOut(x, n) ==
    /\ \A i \in 1..n : DigitAt(x.digits, i) = 9
    /\ DigitAt(x.digits, n + 1) >= 5

\* C26: for non-zero x and n >= 1 the mantissa of
\* round_standard_form_components(x, n) has exactly n digits, the first of them
\* in 1..9, and the assertion holds; when the rounding carries out of the
\* leading digit the mantissa is 10^(n-1) and the exponent is one more than
\* the exponent of the leading digit of x, otherwise the exponent is the
\* exponent of the leading digit of x
C26_MantissaNormalized ==
    (RsfcDone /\ rc_x.sign # 0) =>
        LET c == rc_out.ret
            n == rc_sig_figs
        IN /\ c.assert_ok
           /\ Len(c.mantissa) = n
           /\ c.mantissa[1] \in 1..9
           /\ IF CarriesOut(rc_x, n)
              THEN /\ c.mantissa = <<1>> \o Zeros(n - 1)
                   /\ c.exponent = DecPt(rc_x)
              ELSE c.exponent = DecPt(rc_x) - 1

\* a rounding to two digits or more has carried out of the leading digit
C26_Witness ==
    /\ RsfcDone
    /\ rc_x.sign # 0
    /\ rc_sig_figs >= 2
    /\ CarriesOut(rc_x, rc_sig_figs)
    /\ rc_out.ret.exponent = DecPt(rc_x)

\* digits with no leading zero, or the single digit 0
PlainInteger(cs) ==
    /\ cs # <<>>
    /\ \A i \in 1..Len(cs) : IsDigitChar(cs[i])
    /\ Len(cs) = 1 \/ cs[1] # "0"

\* an integer part, and a point followed by one digit or more if there is a
\* point
PlainDecimal(cs) ==
    LET dot == IndexOf(cs, ".")
    IN IF dot = 0 THEN PlainInteger(cs)
       ELSE /\ PlainInteger(SubSeq(cs, 1, dot - 1))
            /\ dot < Len(cs)
            /\ \A i \in (dot + 1)..Len(cs) : IsDigitChar(cs[i])

\* an integer with an optional '-', no '+' and no leading zero
PlainExponent(cs) ==
    IF cs # <<>> /\ cs[1] = "-" THEN PlainInteger(Tail(cs)) ELSE PlainInteger(cs)

UnsignedLiteral(cs) ==
    LET epos == IndexOf(cs, "e")
    IN IF epos = 0 THEN PlainDecimal(cs)
       ELSE /\ PlainDecimal(SubSeq(cs, 1, epos - 1))
            /\ PlainExponent(SubSeq(cs, epos + 1, Len(cs)))

\* [-]int[.digits][e[-]int]
WellFormedLiteral(s) ==
    IF s # <<>> /\ s[1] = "-" THEN UnsignedLiteral(Tail(s)) ELSE UnsignedLiteral(s)

CompactReturned == CompactDone /\ rc_out.ret.status = "ok"

\* C27: every string that round_compact returns is a decimal literal of the
\* shape [-]int[.digits][e[-]int] with no leading zero in the integer part
\* (other than the single 0) and in the exponent, not empty, with no point at
\* either end, and it starts with '-' exactly when x < 0 and sig_figs >= 1
C27_WellFormed ==
    CompactReturned =>
        LET s == rc_out.ret.str
        IN /\ s # <<>>
           /\ WellFormedLiteral(s)
           /\ s[1] # "." /\ s[Len(s)] # "."
           /\ (s[1] = "-") <=> (rc_x.sign = -1 /\ rc_sig_figs >= 1)

\* round_compact has returned a negative number written with a point and an
\* exponent
C27_Witness ==
    /\ CompactReturned
    /\ rc_x.sign = -1
    /\ rc_out.ret.str[1] = "-"
    /\ IndexOf(rc_out.ret.str, ".") # 0
    /\ IndexOf(rc_out.ret.str, "e") # 0

\* the characters of a literal before its exponent, without the sign
MantissaChars(s) ==
    LET body == IF s # <<>> /\ s[1] = "-" THEN Tail(s) ELSE s
        epos == IndexOf(body, "e")
    IN IF epos = 0 THEN body ELSE SubSeq(body, 1, epos - 1)

\* the positions of the digits that a literal shows from its first non-zero
\* digit on (all its digits when it has no non-zero digit)
ShownDigits(s) ==
    LET m  == MantissaChars(s)
        nz == {i \in 1..Len(m) : m[i] \notin {"0", "."}}
    IN {i \in (IF nz = {} THEN 1 ELSE FirstIn(nz))..Len(m) : m[i] # "."}

\* an integer written without point and exponent whose digits after the first
\* MaxSigFigs are zeros that fill the places up to the units
PaddedInteger(s) ==
    /\ IndexOf(s, ".") = 0
    /\ IndexOf(s, "e") = 0
    /\ \A i \in ShownDigits(s) :
          Cardinality({j \in ShownDigits(s) : j < i}) >= MaxSigFigs
              => MantissaChars(s)[i] = "0"

\* an iteration of the test has returned: sig_num is rc_sig_figs - 1
TestReturned == rc_pc = "test" /\ rc_out # NoOutput

ConverterShape(obj) ==
    /\ obj # NoOutput
    /\ obj.fn = "mpp02"
    /\ DOMAIN obj = {"fn", "W", "groups"}

\* C29: truncate_series never fails on a missing top-level key for a raw series
\* of the shape that mpp02_converter.write_json writes
C29_ShapeCompatible == ConverterShape(ts_obj_raw) => ts_pc # "KeyError"

(***************************************************************************)
(* Properties of FixedLengthReader                                         *)
(***************************************************************************)
\* the index, counted from 0, of the last explicit index among the parts
\* before part p, or -1
RECURSIVE LastIndexPart(_, _)
LastIndexPart(parts, p) ==
    IF p = 0 THEN -1
    ELSE IF AllDigitChars(parts[p]) THEN p - 1
    ELSE LastIndexPart(parts, p - 1)

\* multiplicity times length of a field written with its length
WrittenWidth(part) == ParseFieldSpec(part).multiplicity * ParseFieldSpec(part).length[1]

\* the sum of the lengths of the fields after part q and before part p
RECURSIVE WidthBetween(_, _, _)
WidthBetween(parts, q, p) ==
    IF q + 1 >= p THEN 0
    ELSE WrittenWidth(parts[q + 2]) + WidthBetween(parts, q + 1, p)

\* the position of the part p of an entry: the most recent explicit index
\* plus the lengths of the fields between it and p
PartStart(parts, q, p) ==
    (IF q < 0 THEN 0 ELSE CharsToInt(parts[q + 1])) + WidthBetween(parts, q, p)

\* the number of characters an entry covers: its length, or the rest of
\* the line for an entry without one
EntryLength(entry, line) ==
    IF entry.length = NoLength THEN Max(Len(line) - entry.start_index, 0)
    ELSE entry.length[1]

\* the number of entries before entry k made from the same part
Repetition(k) == Cardinality({i \in 1..(k - 1) : fr_origin[i] = fr_origin[k]})

\* _parse_format_string has returned format_list
FormatParsed == fr_pc \in {"read", "return"} \/ (fr_pc = "ValueError" /\ fr_part_index = Len(fr_parts))

\* every entry starts where its part starts, after the entries of the same
\* part before it, all of its own length
LaidOutContiguously ==
    \A k \in 1..Len(fr_format_list) :
        fr_format_list[k].start_index =
            PartStart(fr_parts, LastIndexPart(fr_parts, fr_origin[k]), fr_origin[k])
            + Repetition(k) * EntryLength(fr_format_list[k], fr_line)

\* n times the field type
RECURSIVE Repeated(_, _)
Repeated(field_type, n) ==
    IF n <= 0 THEN <<>> ELSE <<field_type>> \o Repeated(field_type, n - 1)

\* the field types of the non-skip fields of the parts, each as many times
\* as its multiplicity, in format order
RECURSIVE NonSkipTypes(_)
NonSkipTypes(parts) ==
    IF parts = <<>> THEN <<>>
    ELSE (IF AllDigitChars(Head(parts)) \/ ParseFieldSpec(Head(parts)).field_type = "None"
          THEN <<>>
          ELSE Repeated(ParseFieldSpec(Head(parts)).field_type,
                        ParseFieldSpec(Head(parts)).multiplicity))
         \o NonSkipTypes(Tail(parts))

\* read has returned one value per non-skip entry, in format order
OnePerNonSkipField ==
    /\ Len(fr_result) = Len(NonSkipTypes(fr_parts))
    /\ \A k \in 1..Len(fr_result) : fr_result[k].field_type = NonSkipTypes(fr_parts)[k]

\* C30: once the format string is parsed the fields are laid out contiguously:
\* every entry starts at the most recent explicit index plus the lengths of
\* the fields after it, skip fields included, and the entries of one field
\* with a multiplicity follow one another with equal lengths; and when read
\* returns, it returns one value per non-skip entry in format order, 19 for
\* the format string of the usage example
C30_ContiguousLayout ==
    /\ FormatParsed => LaidOutContiguously
    /\ fr_pc = "return" => OnePerNonSkipField
    /\ (fr_pc = "return" /\ fr_format_string = ExampleFormat) => Len(fr_result) = 19

====
